---- MODULE Spec2Model ----
(***************************************************************************)
(* herd: fan-out executor (internal/executor), SSH connection pool         *)
(* (internal/ssh), output grouper (internal/grouper), selectors            *)
(* (internal/selector) and recipe driver (internal/recipe).  The state     *)
(* machines of this module:                                                *)
(*   ExecSpec   - one Executor.Execute call and its per-host goroutines    *)
(*   PoolSpec   - concurrent Pool.Run calls against one Pool               *)
(*   CloseSpec  - the same callers and one Pool.Close call                 *)
(*   GroupSpec  - grouper.Group applied to a result vector                 *)
(*   DiffSpec   - grouper.Group applied to text outputs (the diff engine)  *)
(*   RecipeSpec - one recipe Runner.Run call                               *)
(*   SelectSpec - one selector.Resolve call                                *)
(*   NewSpec    - one executor.New call                                    *)
(*   ParseSpec  - one selector.ParseInput call                             *)
(*   FrontSpec  - input lines handled by the REPL loop or by the dashboard *)
(*   TicketSpec - one dial of pool.go and the callers waiting on its       *)
(*                channel, step by step; TicketFairSpec adds scheduling    *)
(***************************************************************************)
EXTENDS Integers, Sequences, FiniteSets, TLC

\* ------------------------------------------------------------------ bounds
MaxHosts == 3          \* longest hosts slice handed to Execute
MaxConc == 2           \* largest concurrency setting explored
NumRuns == 2           \* concurrent Pool.Run callers
MaxResults == 3        \* longest result vector handed to Group
MaxSteps == 3          \* longest recipe handed to Runner.Run
MaxOut == 3            \* longest output text handed to the diff engine
MaxParts == 2          \* most comma-separated parts of a selector
MaxOpts == 3           \* most options handed to executor.New
MaxLine == 6           \* longest input line handed to ParseInput
MaxWaiters == 3        \* callers that may wait on one dial's channel
MaxInputs == 3         \* input lines entered in one front-end session

Labels == {"h1", "h2"}   \* labels handed to Execute
PoolHosts == {"h1"}      \* labels the pool callers ask for
Nil == [nil |-> TRUE]      \* a nil pointer

VARIABLES
    \* ---- Executor.Execute
    hosts,        \* the hosts argument
    concurrency,  \* e.concurrency
    ctx,          \* outer ctx: TRUE once ctx.Done() is closed
    results,      \* results[idx]: Nil or a HostResult
    sem,          \* len(sem): permits currently held
    tpc,          \* per goroutine: "select" | "run" | "done"
    hostCtx,      \* per goroutine: hostCtx.Err(): "none" | "canceled" | "deadline"
    epc,          \* Execute itself: "wait" (wg.Wait) | "returned"
    ret,          \* the vector Execute returned
    invoked,      \* history: goroutines whose runner.Run was called
    reordered,    \* history: a slot was written before an earlier one
    atCancel,     \* history: what was pending when ctx fired
    returned,     \* history: per goroutine, the Err of the result runner.Run returned
    \* ---- Pool
    impl,         \* which getOrDial: "ticket" (pool.go) | "singleflight"
    clients,      \* p.clients: host -> client id, 0 when absent
    inflight,     \* p.inflight / dialGroup: host -> dial id, 0 when absent
    dials,        \* every Dial started: sequence of dial records
    closed,       \* clients on which Close() was called
    runs,         \* per Pool.Run caller: its position, token and history
    shut,         \* history: Pool.Close() has been called and has returned
    atClose,      \* history: what was going on when Close() ran
    \* ---- grouper.Group
    gin,          \* the results argument
    gout,         \* the *GroupedResults returned, Nil before the call
    \* ---- recipe Runner.Run
    rsteps,       \* the steps argument
    rctx,         \* ctx: TRUE once the token has fired
    ri,           \* the step the loop is at (1-based)
    rpc,          \* "top" (head of the loop) | "exec" (inside Execute) | "returned"
    rhosts,       \* hosts resolved for the current step
    rstate,       \* state.Grouped: Nil or the last grouping
    rresults,     \* results accumulated so far
    rret,         \* what Run returned: [results, err]
    resolvedWith, \* history: the state.Grouped each Resolve call was given
    dispatched,   \* history: steps for which Execute was called
    \* ---- selector.Resolve
    ssel,         \* the sel argument
    sstate,       \* the state argument
    slast,        \* history: the results state.Grouped was made from
    sout,         \* what Resolve returned: [hosts, err], Nil before the call
    \* ---- executor.New
    nopts,        \* the opts argument
    nexec,        \* e: Nil before the composite literal, then its fields
    nk,           \* options applied so far
    npc,          \* "new" | "opts" | "returned"
    \* ---- selector.ParseInput
    pline,        \* the input argument: a sequence of characters
    pout,         \* Nil, or the (sel, command) pair returned
    \* ---- one in-flight dial of pool.go and its channel
    tch,          \* ch: the buffered values, at most cap(ch) = 1
    tticket,      \* TRUE while p.inflight[host] holds ch
    tdial,        \* the dialing caller: "dialing" | "send" | "returned"
    tres,         \* the dialResult of the dial once Dial has returned
    twait,        \* per waiting caller: pc, token and what getOrDial returned
    \* ---- the interactive front-ends
    fkind,        \* "repl" (REPL.Run) | "dashboard" (dashboard.Model)
    flast,        \* lastGrouped: Nil or the grouping of the last command
    fcmds,        \* dashboard: the tea.Cmd closures returned and not yet run
    fexec,        \* calls of Execute made so far
    fn,           \* input lines entered so far
    fhandled      \* the line whose handling has just ended, and what it found

execVars == <<hosts, concurrency, ctx, results, sem, tpc, hostCtx, epc, ret,
              invoked, reordered, atCancel, returned>>
poolVars == <<impl, clients, inflight, dials, closed, runs, shut, atClose>>
groupVars == <<gin, gout>>
recipeVars == <<rsteps, rctx, ri, rpc, rhosts, rstate, rresults, rret,
                resolvedWith, dispatched>>
selectVars == <<ssel, sstate, slast, sout>>
newVars == <<nopts, nexec, nk, npc>>
parseVars == <<pline, pout>>
ticketVars == <<tch, tticket, tdial, tres, twait>>
frontVars == <<fkind, flast, fcmds, fexec, fn, fhandled>>
vars == <<execVars, poolVars, groupVars, recipeVars, selectVars, newVars, parseVars, ticketVars, frontVars>>
\* what the steps of one component leave alone
notExec == <<poolVars, groupVars, recipeVars, selectVars, newVars, parseVars, ticketVars, frontVars>>
notPool == <<execVars, groupVars, recipeVars, selectVars, newVars, parseVars, ticketVars, frontVars>>
notGroup == <<execVars, poolVars, recipeVars, selectVars, newVars, parseVars, ticketVars, frontVars>>
notRecipe == <<execVars, poolVars, groupVars, selectVars, newVars, parseVars, ticketVars, frontVars>>
notSelect == <<execVars, poolVars, groupVars, recipeVars, newVars, parseVars, ticketVars, frontVars>>
notNew == <<execVars, poolVars, groupVars, recipeVars, selectVars, parseVars, ticketVars, frontVars>>
notParse == <<execVars, poolVars, groupVars, recipeVars, selectVars, newVars, ticketVars, frontVars>>
notTicket == <<execVars, poolVars, groupVars, recipeVars, selectVars, newVars, parseVars, frontVars>>
notFront == <<execVars, poolVars, groupVars, recipeVars, selectVars, newVars, parseVars, ticketVars>>

\* ================================================================ errors
\* An error value is modelled by what the classifiers look at: the sentinel
\* values errors.Is finds in its chain, whether errors.As finds a
\* *net.OpError, the fragments its message contains, and the Timeout()
\* answers of the values of its chain that implement net.Error, outermost
\* first.
Err(is, op, msg) ==
    [is |-> is, op |-> op, msg |-> msg,
     net |-> IF op THEN <<"i/o timeout" \in msg>> ELSE <<>>]

\* an error whose chain holds the net.Error values answering Timeout() with
\* timeouts, outermost first, and no sentinel
NetChain(timeouts) ==
    [is |-> {}, op |-> FALSE, msg |-> {"network error"}, net |-> timeouts]

NoErr == Err({}, FALSE, {})
ErrCanceled == Err({"Canceled"}, FALSE, {"context canceled"})
ErrDeadline == Err({"DeadlineExceeded"}, FALSE, {"context deadline exceeded"})
ErrEOF == Err({"EOF"}, FALSE, {"EOF"})
ErrUnexpectedEOF == Err({"ErrUnexpectedEOF"}, FALSE, {"unexpected EOF"})
ErrClosedConn == Err({}, FALSE, {"use of closed network connection"})
ErrBrokenPipe == Err({}, FALSE, {"broken pipe"})
ErrReset == Err({}, TRUE, {"connection reset"})
ErrRefused == Err({}, TRUE, {"connection refused"})
ErrDNS == Err({}, TRUE, {"no such host"})
ErrAuth == Err({}, FALSE, {"handshake failed", "unable to authenticate"})
ErrHostKey == Err({}, FALSE, {"handshake failed", "knownhosts: key mismatch"})
ErrGeneric == Err({}, FALSE, {"something went wrong"})

\* fmt.Errorf(prefix + ": %w", e): the chain is kept, the message grows.
Wrap(prefix, e) == [e EXCEPT !.msg = e.msg \cup {prefix}]

Contains(msg, s) == s \in msg

\* ============================================================== executor
HostResult(h, e) == [Host |-> h, Err |-> e]

Idx == 1..Len(hosts)

\* case sem <- struct{}{}: the send can proceed while the buffer has room
SemHasRoom_Off(s, k) == s <= k
SemHasRoom(s, k) == s < k

\* case <-ctx.Done(): the slot gets the label and ctx.Err()
CancelResult_NoErr(h) == HostResult(h, NoErr)
CancelResult(h) == HostResult(h, ErrCanceled)

\* what the goroutine does with the runner's result before storing it
Finish_AsReturned(r, h, hctx) == HostResult(h, r.Err)
Finish_KeepHost(r, h, hctx) ==
    HostResult(r.Host, IF hctx = "deadline" /\ r.Err = NoErr THEN ErrDeadline ELSE r.Err)
Finish(r, h, hctx) ==
    HostResult(h, IF hctx = "deadline" /\ r.Err = NoErr THEN ErrDeadline ELSE r.Err)

\* What a Runner may hand back: any Host (it may leave it blank or wrong),
\* no error, a failure of its own, or the error of the context it was given.
RunnerResults(hctx) ==
    { HostResult(h, e) :
        h \in Labels \cup {""},
        e \in {NoErr, ErrGeneric} \cup
              (IF hctx = "canceled" THEN {ErrCanceled} ELSE {}) \cup
              (IF hctx = "deadline" THEN {ErrDeadline} ELSE {}) }

HostLists == UNION { [1..n -> Labels] : n \in 0..MaxHosts }

ExecInit ==
    /\ hosts \in HostLists
    /\ concurrency \in 1..MaxConc
    /\ ctx = FALSE
    /\ results = [i \in 1..Len(hosts) |-> Nil]
    /\ sem = 0
    /\ tpc = [i \in 1..Len(hosts) |-> "select"]
    /\ hostCtx = [i \in 1..Len(hosts) |-> "none"]
    /\ epc = "wait"
    /\ ret = <<>>
    /\ invoked = {}
    /\ reordered = FALSE
    /\ atCancel = [noPermit |-> {}, noResult |-> {}]
    /\ returned = [i \in 1..Len(hosts) |-> Nil]

\* the caller cancels the outer context while Execute is running
CancelCtx ==
    /\ epc = "wait" /\ ~ctx
    /\ ctx' = TRUE
    /\ hostCtx' = [i \in Idx |-> IF tpc[i] = "run" /\ hostCtx[i] = "none"
                                 THEN "canceled" ELSE hostCtx[i]]
    /\ atCancel' = [noPermit |-> {i \in Idx : tpc[i] = "select"},
                    noResult |-> {i \in Idx : results[i] = Nil}]
    /\ UNCHANGED <<hosts, concurrency, results, sem, tpc, epc, ret, invoked, reordered,
                   returned>>
    /\ UNCHANGED notExec

\* select: case sem <- struct{}{}; then WithTimeout and the call of runner.Run
Acquire(i) ==
    /\ tpc[i] = "select"
    /\ SemHasRoom(sem, concurrency)
    /\ sem' = sem + 1
    /\ tpc' = [tpc EXCEPT ![i] = "run"]
    /\ hostCtx' = [hostCtx EXCEPT ![i] = IF ctx THEN "canceled" ELSE "none"]
    /\ invoked' = invoked \cup {i}
    /\ UNCHANGED <<hosts, concurrency, ctx, results, epc, ret, reordered, atCancel,
                   returned>>
    /\ UNCHANGED notExec

\* select: case <-ctx.Done()
AcquireCanceled(i) ==
    /\ tpc[i] = "select"
    /\ ctx
    /\ results' = [results EXCEPT ![i] = CancelResult(hosts[i])]
    /\ tpc' = [tpc EXCEPT ![i] = "done"]
    /\ reordered' = (reordered \/ \E j \in 1..(i-1) : results[j] = Nil)
    /\ UNCHANGED <<hosts, concurrency, ctx, sem, hostCtx, epc, ret, invoked, atCancel,
                   returned>>
    /\ UNCHANGED notExec

\* the per-host deadline of hostCtx passes while the runner is working
HostTimeout(i) ==
    /\ tpc[i] = "run"
    /\ hostCtx[i] = "none"
    /\ hostCtx' = [hostCtx EXCEPT ![i] = "deadline"]
    /\ UNCHANGED <<hosts, concurrency, ctx, results, sem, tpc, epc, ret, invoked,
                   reordered, atCancel, returned>>
    /\ UNCHANGED notExec

\* runner.Run returns; the result is completed, stored, the permit released
RunnerReturn_FailFast(i) ==
    /\ tpc[i] = "run"
    /\ \E r \in RunnerResults(hostCtx[i]) :
          /\ results' = [results EXCEPT ![i] = Finish(r, hosts[i], hostCtx[i])]
          /\ returned' = [returned EXCEPT ![i] = r.Err]
          /\ hostCtx' = [j \in Idx |->
                            IF r.Err # NoErr /\ j # i /\ tpc[j] = "run" /\ hostCtx[j] = "none"
                            THEN "canceled" ELSE hostCtx[j]]
    /\ sem' = sem - 1
    /\ tpc' = [tpc EXCEPT ![i] = "done"]
    /\ reordered' = (reordered \/ \E j \in 1..(i-1) : results[j] = Nil)
    /\ UNCHANGED <<hosts, concurrency, ctx, epc, ret, invoked, atCancel>>
    /\ UNCHANGED notExec
\* a goroutine that returns without taking its token back out of sem
RunnerReturn_NoRelease(i) ==
    /\ tpc[i] = "run"
    /\ \E r \in RunnerResults(hostCtx[i]) :
          /\ results' = [results EXCEPT ![i] = Finish(r, hosts[i], hostCtx[i])]
          /\ returned' = [returned EXCEPT ![i] = r.Err]
    /\ sem' = sem
    /\ tpc' = [tpc EXCEPT ![i] = "done"]
    /\ reordered' = (reordered \/ \E j \in 1..(i-1) : results[j] = Nil)
    /\ UNCHANGED <<hosts, concurrency, ctx, hostCtx, epc, ret, invoked, atCancel>>
    /\ UNCHANGED notExec

RunnerReturn(i) ==
    /\ tpc[i] = "run"
    /\ \E r \in RunnerResults(hostCtx[i]) :
          /\ results' = [results EXCEPT ![i] = Finish(r, hosts[i], hostCtx[i])]
          /\ returned' = [returned EXCEPT ![i] = r.Err]
    /\ sem' = sem - 1
    /\ tpc' = [tpc EXCEPT ![i] = "done"]
    /\ reordered' = (reordered \/ \E j \in 1..(i-1) : results[j] = Nil)
    /\ UNCHANGED <<hosts, concurrency, ctx, hostCtx, epc, ret, invoked, atCancel>>
    /\ UNCHANGED notExec

\* wg.Wait() returns once every goroutine is done (at once for no hosts)
ExecuteReturn ==
    /\ epc = "wait"
    /\ \A i \in Idx : tpc[i] = "done"
    /\ epc' = "returned"
    /\ ret' = results
    /\ UNCHANGED <<hosts, concurrency, ctx, results, sem, tpc, hostCtx, invoked,
                   reordered, atCancel, returned>>
    /\ UNCHANGED notExec

ExecNext ==
    \/ CancelCtx
    \/ \E i \in Idx : Acquire(i)
    \/ \E i \in Idx : AcquireCanceled(i)
    \/ \E i \in Idx : HostTimeout(i)
    \/ \E i \in Idx : RunnerReturn(i)
    \/ ExecuteReturn

\* ---- executor.New
\* an Option is a closure over its argument: which setter, and the value
Option(kind, n) == [kind |-> kind, n |-> n]

\* WithConcurrency(n) applied to e
WithConcurrency(n, e) == IF n > 0 THEN [e EXCEPT !.concurrency = n] ELSE e

\* WithTimeout(d) applied to e
WithTimeout_Unchecked(d, e) == [e EXCEPT !.timeout = d]
WithTimeout(d, e) == IF d > 0 THEN [e EXCEPT !.timeout = d] ELSE e

\* opt(e)
ApplyOption(opt, e) ==
    IF opt.kind = "concurrency" THEN WithConcurrency(opt.n, e)
    ELSE WithTimeout(opt.n, e)

\* &Executor{runner: runner, concurrency: 20, timeout: 30 * time.Second},
\* durations counted in seconds
DefaultExecutor == [concurrency |-> 20, timeout |-> 30]

\* the option lists handed to New
OptionArgs == {0 - 1, 0, 1, 50}
OptionValues == { Option(k, n) : k \in {"concurrency", "timeout"}, n \in OptionArgs }
OptionLists == UNION { [1..n -> OptionValues] : n \in 0..MaxOpts }

NewInit ==
    /\ nopts \in OptionLists
    /\ nexec = Nil
    /\ nk = 0
    /\ npc = "new"

\* e := &Executor{...}
NewAlloc ==
    /\ npc = "new"
    /\ nexec' = DefaultExecutor
    /\ npc' = "opts"
    /\ UNCHANGED <<nopts, nk>>
    /\ UNCHANGED notNew

\* for _, opt := range opts { opt(e) }
NewApply ==
    /\ npc = "opts"
    /\ nk < Len(nopts)
    /\ nexec' = ApplyOption(nopts[nk + 1], nexec)
    /\ nk' = nk + 1
    /\ UNCHANGED <<nopts, npc>>
    /\ UNCHANGED notNew

\* return e
NewReturn ==
    /\ npc = "opts"
    /\ nk = Len(nopts)
    /\ npc' = "returned"
    /\ UNCHANGED <<nopts, nexec, nk>>
    /\ UNCHANGED notNew

NewNext ==
    \/ NewAlloc
    \/ NewApply
    \/ NewReturn

NewIdle ==
    /\ nopts = <<>>
    /\ nexec = Nil
    /\ nk = 0
    /\ npc = "returned"

\* ================================================================== pool
\* errors the network stack hands to Dial when its context is done: a
\* *net.OpError whose chain answers errors.Is(context.Canceled/DeadlineExceeded)
ErrDialCanceled == Err({"Canceled"}, TRUE, {"operation was canceled"})
ErrDialDeadline == Err({"DeadlineExceeded"}, TRUE, {"i/o timeout"})

isReconnectable_NoCtxCheck(err) ==
    IF err = NoErr THEN FALSE
    ELSE IF "EOF" \in err.is \/ "ErrUnexpectedEOF" \in err.is THEN TRUE
    ELSE IF err.op THEN TRUE
    ELSE IF \/ Contains(err.msg, "use of closed network connection")
            \/ Contains(err.msg, "connection reset")
            \/ Contains(err.msg, "broken pipe") THEN TRUE
    ELSE FALSE
isReconnectable(err) ==
    IF err = NoErr THEN FALSE
    ELSE IF "Canceled" \in err.is \/ "DeadlineExceeded" \in err.is THEN FALSE
    ELSE IF "EOF" \in err.is \/ "ErrUnexpectedEOF" \in err.is THEN TRUE
    ELSE IF err.op THEN TRUE
    ELSE IF \/ Contains(err.msg, "use of closed network connection")
            \/ Contains(err.msg, "connection reset")
            \/ Contains(err.msg, "broken pipe") THEN TRUE
    ELSE FALSE

\* How a caller's context ends when it does: callers with an odd number hold
\* a cancellable context, the others one with a deadline.
ctxKind(r) == IF r % 2 = 1 THEN "canceled" ELSE "deadline"

\* ctx.Err() of a caller's token
CtxErr(token) == IF token = "deadline" THEN ErrDeadline ELSE ErrCanceled
IsCtxErr(e) == "Canceled" \in e.is \/ "DeadlineExceeded" \in e.is

Runs == 1..NumRuns
DialIds == 1..Len(dials)

dialResult(c, e) == [client |-> c, err |-> e]
NoGot == [dial |-> 0, res |-> dialResult(0, NoErr), how |-> "none", early |-> FALSE]

\* the decision getOrDial takes under p.mu (pool.go) / around DoChan
lookup_NoJoin(cl, infl, h) ==
    IF cl[h] # 0 THEN "cached" ELSE "dial"
\* a lookup that never finds the cached client
lookup_NoCache(cl, infl, h) ==
    IF infl[h] # 0 THEN "join" ELSE "dial"

lookup(cl, infl, h) ==
    IF cl[h] # 0 THEN "cached"
    ELSE IF infl[h] # 0 THEN "join"
    ELSE "dial"

\* Run: "if err != nil && isReconnectable(err)" after the first exec only
ShouldRetry_Again(attempt, e) == attempt <= 2 /\ e # NoErr /\ isReconnectable(e)
ShouldRetry(attempt, e) == attempt = 1 /\ e # NoErr /\ isReconnectable(e)

\* the context Dial runs under: the token of the caller that started it
DialCtx_AnyCaller(d) ==
    IF \E r \in Runs : runs[r].dial = d /\ runs[r].token # "live"
    THEN (CHOOSE r \in Runs : runs[r].dial = d /\ runs[r].token # "live")
    ELSE dials[d].owner
DialCtx(d) == dials[d].owner

\* what Dial may return under a token
DialOutcomes(token) ==
    { dialResult(1, NoErr),
      dialResult(0, Wrap("dial", ErrRefused)),
      dialResult(0, Wrap("ssh handshake", ErrAuth)),
      dialResult(0, Wrap("ssh handshake", ErrHostKey)) } \cup
    (IF token = "canceled"
     THEN {dialResult(0, Wrap("dial", ErrDialCanceled))} ELSE {}) \cup
    (IF token = "deadline"
     THEN {dialResult(0, Wrap("dial", ErrDialDeadline))} ELSE {})

\* what client.RunCommand may return under a token
CommandOutcomes(token) ==
    { NoErr, Wrap("new session", ErrEOF) } \cup
    (IF token # "live" THEN {CtxErr(token)} ELSE {})

\* the value Run returns: the outcome of the last exec
RunResult(e1, e) == e

\* bookkeeping shared by every way an exec attempt can end with error e
\* (NoErr: the command ran): Run either goes on to evict and retry or returns
EndExec(rec, e, stage) ==
    LET noted == IF rec.attempt = 1
                 THEN [rec EXCEPT !.e1 = e, !.stage1 = stage]
                 ELSE rec
    IN IF ShouldRetry(rec.attempt, e)
       THEN [noted EXCEPT !.pc = "evict"]
       ELSE [noted EXCEPT !.pc = "done", !.err = RunResult(rec.e1, e),
                          !.asIs = (RunResult(rec.e1, e) = e)]

\* nothing recorded: Close() has not run
NoClose == [dials |-> {}, fresh |-> {}]

PoolInit ==
    /\ impl \in {"ticket", "singleflight"}
    /\ clients = [h \in PoolHosts |-> 0]
    /\ inflight = [h \in PoolHosts |-> 0]
    /\ dials = <<>>
    /\ closed = {}
    /\ shut = FALSE
    /\ atClose = NoClose
    /\ runs \in { [r \in Runs |->
                    [host |-> hs[r], pc |-> "lookup", token |-> "live", attempt |-> 1,
                     dial |-> 0, client |-> 0, err |-> NoErr,
                     e1 |-> NoErr, stage1 |-> "none", asIs |-> TRUE,
                     nRedial |-> 0, nCmd |-> 0,
                     got |-> NoGot]] : hs \in [Runs -> PoolHosts] }

newDial(r) == [host |-> runs[r].host, owner |-> r, state |-> "running",
               res |-> dialResult(0, NoErr)]

startDial(rec) == [rec EXCEPT !.dial = Len(dials) + 1,
                              !.nRedial = IF rec.attempt > 1 THEN @ + 1 ELSE @]

toCmd(rec, c) == [rec EXCEPT !.pc = "cmd", !.client = c, !.nCmd = @ + 1]

\* getOrDial up to its first blocking point.
\*   pool.go:  lock; cached -> return; in flight -> wait on its channel;
\*             else register a channel and go on to Dial
\*   singleflight variant: lock; cached -> return; else unlock and head for DoChan
getOrDial(r) ==
    LET rec == runs[r]
        h == rec.host
        what == lookup(clients, inflight, h)
    IN /\ rec.pc = "lookup"
       /\ IF what = "cached" \/ impl = "singleflight"
          THEN /\ runs' = [runs EXCEPT ![r] =
                             IF what = "cached" THEN toCmd(rec, clients[h])
                             ELSE [rec EXCEPT !.pc = "dochan"]]
               /\ UNCHANGED <<dials, inflight>>
          ELSE IF what = "join"
          THEN /\ runs' = [runs EXCEPT ![r] =
                             [rec EXCEPT !.pc = "waiting", !.dial = inflight[h]]]
               /\ UNCHANGED <<dials, inflight>>
          ELSE /\ runs' = [runs EXCEPT ![r] = [startDial(rec) EXCEPT !.pc = "dialing"]]
               /\ dials' = Append(dials, newDial(r))
               /\ inflight' = [inflight EXCEPT ![h] = Len(dials) + 1]
       /\ UNCHANGED <<shut, atClose, impl, clients, closed>>
       /\ UNCHANGED notPool

\* p.dialGroup.DoChan(host, fn): join the call in flight for the key, or
\* start fn (the Dial, under this caller's ctx) in its own goroutine
DoChan(r) ==
    LET rec == runs[r]
        h == rec.host
    IN /\ impl = "singleflight"
       /\ rec.pc = "dochan"
       /\ IF inflight[h] # 0
          THEN /\ runs' = [runs EXCEPT ![r] =
                             [rec EXCEPT !.pc = "waiting", !.dial = inflight[h]]]
               /\ UNCHANGED <<dials, inflight>>
          ELSE /\ runs' = [runs EXCEPT ![r] = [startDial(rec) EXCEPT !.pc = "waiting"]]
               /\ dials' = Append(dials, newDial(r))
               /\ inflight' = [inflight EXCEPT ![h] = Len(dials) + 1]
       /\ UNCHANGED <<shut, atClose, impl, clients, closed>>
       /\ UNCHANGED notPool

\* Dial returns.  The ticket is removed, a client is stored, the outcome is
\* published.  In pool.go the dialing caller then carries on with it.
DialReturn(d) ==
    LET h == dials[d].host
        o == dials[d].owner
    IN /\ dials[d].state = "running"
       /\ \E out \in DialOutcomes(runs[DialCtx(d)].token) :
            LET res == dialResult(IF out.err = NoErr THEN d ELSE 0, out.err)
            IN /\ dials' = [dials EXCEPT ![d] = [@ EXCEPT !.state = "done", !.res = res]]
               /\ clients' = IF res.err = NoErr THEN [clients EXCEPT ![h] = d] ELSE clients
               /\ runs' = IF impl = "ticket"
                          THEN [runs EXCEPT ![o] =
                                 LET g == [@ EXCEPT !.got = [dial |-> d, res |-> res,
                                                             how |-> "dialer", early |-> FALSE]]
                                 IN IF res.err = NoErr THEN toCmd(g, d)
                                    ELSE EndExec(g, Wrap("connect", res.err), "dial")]
                          ELSE runs
       /\ inflight' = [inflight EXCEPT ![h] = 0]
       /\ UNCHANGED <<shut, atClose, impl, closed>>
       /\ UNCHANGED notPool

\* select: case res := <-ch (and, in pool.go, ch <- res for the next waiter)
WaitRecv(r) ==
    LET rec == runs[r]
        d == rec.dial
    IN /\ rec.pc = "waiting"
       /\ dials[d].state = "done"
       /\ LET res == dials[d].res
              g == [rec EXCEPT !.got = [dial |-> d, res |-> res, how |-> "recv",
                                        early |-> FALSE]]
              stage == IF dials[d].owner = r THEN "dial" ELSE "wait"
          IN runs' = [runs EXCEPT ![r] =
                        IF res.err = NoErr THEN toCmd(g, res.client)
                        ELSE EndExec(g, Wrap("connect", res.err), stage)]
       /\ UNCHANGED <<shut, atClose, impl, clients, inflight, dials, closed>>
       /\ UNCHANGED notPool

\* select: case <-ctx.Done(): return nil, ctx.Err()
WaitCanceled(r) ==
    LET rec == runs[r]
        d == rec.dial
    IN /\ rec.pc = "waiting"
       /\ rec.token # "live"
       /\ LET res == dialResult(0, CtxErr(rec.token))
              g == [rec EXCEPT !.got = [dial |-> d, res |-> res, how |-> "cancel",
                                        early |-> dials[d].state = "running"]]
              stage == IF dials[d].owner = r THEN "dial" ELSE "wait"
          IN runs' = [runs EXCEPT ![r] = EndExec(g, Wrap("connect", res.err), stage)]
       /\ UNCHANGED <<shut, atClose, impl, clients, inflight, dials, closed>>
       /\ UNCHANGED notPool

\* client.RunCommand returns
CommandReturn(r) ==
    LET rec == runs[r]
    IN /\ rec.pc = "cmd"
       /\ \E e \in CommandOutcomes(rec.token) :
            runs' = [runs EXCEPT ![r] = EndExec(rec, e, "cmd")]
       /\ UNCHANGED <<shut, atClose, impl, clients, inflight, dials, closed>>
       /\ UNCHANGED notPool

\* p.evict(host), then on to the second exec
evict(r) ==
    LET rec == runs[r]
        h == rec.host
    IN /\ rec.pc = "evict"
       /\ clients' = [clients EXCEPT ![h] = 0]
       /\ closed' = IF clients[h] # 0 THEN closed \cup {clients[h]} ELSE closed
       /\ runs' = [runs EXCEPT ![r] = [rec EXCEPT !.pc = "lookup", !.attempt = @ + 1]]
       /\ UNCHANGED <<shut, atClose, impl, inflight, dials>>
       /\ UNCHANGED notPool

\* the caller's token fires: cancellation, or its deadline passes
CancelRun(r) ==
    /\ runs[r].pc # "done"
    /\ runs[r].token = "live"
    /\ runs' = [runs EXCEPT ![r] = [@ EXCEPT !.token = ctxKind(r)]]
    /\ UNCHANGED <<shut, atClose, impl, clients, inflight, dials, closed>>
    /\ UNCHANGED notPool

\* p.Close(): swap the cache for an empty map under the lock, then Close()
\* every client that was in it.  The in-flight tickets are left alone, and
\* nothing records that the pool was closed.
Close ==
    /\ ~shut
    /\ clients' = [h \in PoolHosts |-> 0]
    /\ closed' = closed \cup {clients[h] : h \in {k \in PoolHosts : clients[k] # 0}}
    /\ shut' = TRUE
    /\ atClose' = [dials |-> {d \in DialIds : dials[d].state = "running"},
                   fresh |-> {r \in Runs : runs[r].pc = "lookup" /\ runs[r].attempt = 1}]
    /\ UNCHANGED <<impl, inflight, dials, runs>>
    /\ UNCHANGED notPool

PoolNext ==
    \/ \E r \in Runs : getOrDial(r)
    \/ \E r \in Runs : DoChan(r)
    \/ \E d \in DialIds : DialReturn(d)
    \/ \E r \in Runs : WaitRecv(r)
    \/ \E r \in Runs : WaitCanceled(r)
    \/ \E r \in Runs : CommandReturn(r)
    \/ \E r \in Runs : evict(r)
    \/ \E r \in Runs : CancelRun(r)

\* the pool's callers together with its owner, who may call Close() once
CloseNext ==
    \/ PoolNext
    \/ Close

\* =============================================================== grouper
\* sort.Strings over the labels: their lexical rank
LabelRank(h) == CASE h = "h1" -> 1 [] h = "h2" -> 2 [] OTHER -> 3

RECURSIVE Insert(_, _)
Insert(sorted, h) ==
    IF sorted = <<>> THEN <<h>>
    ELSE IF LabelRank(h) < LabelRank(Head(sorted)) THEN <<h>> \o sorted
    ELSE <<Head(sorted)>> \o Insert(Tail(sorted), h)

RECURSIVE SortStrings(_)
SortStrings(hs) ==
    IF hs = <<>> THEN <<>> ELSE Insert(SortStrings(Tail(hs)), Head(hs))

\* an executor.HostResult as the grouper sees it
Completed(h, out, errOut, code) ==
    [Host |-> h, Stdout |-> out, Stderr |-> errOut, ExitCode |-> code, Err |-> NoErr]
Errored(h, e) ==
    [Host |-> h, Stdout |-> <<>>, Stderr |-> <<>>, ExitCode |-> 0 - 1, Err |-> e]

\* isTimeout: errors.Is(err, context.DeadlineExceeded); otherwise errors.As
\* stops at the first net.Error of the chain and its Timeout() decides
isTimeout_AnyInChain(e) ==
    \/ "DeadlineExceeded" \in e.is
    \/ \E i \in 1..Len(e.net) : e.net[i]
isTimeout(e) ==
    \/ "DeadlineExceeded" \in e.is
    \/ e.net # <<>> /\ Head(e.net)

\* byte(r.ExitCode>>24), byte(r.ExitCode>>16), byte(r.ExitCode>>8), byte(r.ExitCode)
ExitBytes(code) ==
    << (code \div 16777216) % 256, (code \div 65536) % 256,
       (code \div 256) % 256, code % 256 >>

\* hashBuf: stdout, a NUL, stderr, a NUL, the four exit-code bytes.  The
\* group key is sha256 of this buffer; equal buffers give the same key and
\* sha256 is taken to be free of collisions on different buffers.
hashBuf(r) == r.Stdout \o <<0>> \o r.Stderr \o <<0>> \o ExitBytes(r.ExitCode)

\* first loop: the errored results, split by isTimeout, in input order
TimedOutOf(rs) == SelectSeq(rs, LAMBDA r : r.Err # NoErr /\ isTimeout(r.Err))
FailedOf_All(rs) == SelectSeq(rs, LAMBDA r : r.Err # NoErr)
FailedOf(rs) == SelectSeq(rs, LAMBDA r : r.Err # NoErr /\ ~isTimeout(r.Err))
completed(rs) == SelectSeq(rs, LAMBDA r : r.Err = NoErr)

\* hashOrder: the keys in order of first appearance
RECURSIVE hashOrder(_, _)
hashOrder(cs, seen) ==
    IF cs = <<>> THEN <<>>
    ELSE LET k == hashBuf(Head(cs))
         IN IF k \in seen THEN hashOrder(Tail(cs), seen)
            ELSE <<k>> \o hashOrder(Tail(cs), seen \cup {k})

\* groups[key]: the hosts that hashed to key, in input order, with the
\* output fields of the first of them
groupData(cs, k) ==
    LET members == SelectSeq(cs, LAMBDA r : hashBuf(r) = k)
    IN [hosts |-> [i \in 1..Len(members) |-> members[i].Host],
        stdout |-> members[1].Stdout,
        stderr |-> members[1].Stderr,
        exitCode |-> members[1].ExitCode]

\* the norm: the largest group; a later group replaces the incumbent only
\* when it is strictly larger
RECURSIVE normHash(_, _, _)
normHash(cs, order, best) ==
    IF order = <<>> THEN best
    ELSE IF Len(groupData(cs, Head(order)).hosts) > Len(groupData(cs, best).hosts)
         THEN normHash(cs, Tail(order), Head(order))
         ELSE normHash(cs, Tail(order), best)

\* ---- the diff engine.  Text is a sequence of bytes.
NL == 10
Minus == 45
Plus == 43
Space == 32

\* const maxDiffLines = 500
maxDiffLines == 500

\* strings.Split(s, "\n")
RECURSIVE SplitNL(_, _)
SplitNL(s, cur) ==
    IF s = <<>> THEN <<cur>>
    ELSE IF Head(s) = NL THEN <<cur>> \o SplitNL(Tail(s), <<>>)
    ELSE SplitNL(Tail(s), Append(cur, Head(s)))

\* splitLines: nil for "", else the pieces between the newlines without
\* the empty piece a trailing newline leaves
splitLines_KeepLast(s) == IF s = <<>> THEN <<>> ELSE SplitNL(s, <<>>)
splitLines(s) ==
    IF s = <<>> THEN <<>>
    ELSE LET lines == SplitNL(s, <<>>)
         IN IF lines[Len(lines)] = <<>> THEN SubSeq(lines, 1, Len(lines) - 1)
            ELSE lines

\* computeLCS: the table dp, then the walk back from (m, n); on a tie the
\* walk moves up (dp[i-1][j] >= dp[i][j-1])
RECURSIVE backtrack(_, _, _, _, _)
backtrack(a, b, dp, i, j) ==
    IF i = 0 \/ j = 0 THEN <<>>
    ELSE IF a[i] = b[j] THEN Append(backtrack(a, b, dp, i - 1, j - 1), a[i])
    ELSE IF dp[i - 1, j] >= dp[i, j - 1] THEN backtrack(a, b, dp, i - 1, j)
    ELSE backtrack(a, b, dp, i, j - 1)

computeLCS(a, b) ==
    LET m == Len(a)
        n == Len(b)
        dp[i \in 0..m, j \in 0..n] ==
            IF i = 0 \/ j = 0 THEN 0
            ELSE IF a[i] = b[j] THEN dp[i - 1, j - 1] + 1
            ELSE IF dp[i - 1, j] >= dp[i, j - 1] THEN dp[i - 1, j]
            ELSE dp[i, j - 1]
    IN backtrack(a, b, dp, m, n)

\* out.WriteString(prefix); out.WriteString(line); out.WriteString("\n")
DiffLine(prefix, line) == <<prefix>> \o line \o <<NL>>

RECURSIVE DiffLines(_, _)
DiffLines(prefix, lines) ==
    IF lines = <<>> THEN <<>>
    ELSE DiffLine(prefix, Head(lines)) \o DiffLines(prefix, Tail(lines))

\* "--- norm\n+++ outlier\n"
DiffHeader ==
    <<45, 45, 45, 32, 110, 111, 114, 109, 10,
      43, 43, 43, 32, 111, 117, 116, 108, 105, 101, 114, 10>>

\* the loops over ai, bi, li (here counted from 1): before each common
\* line the a-lines and then the b-lines that differ from it, then the
\* common line; after the last common line the rest of a, then the rest of b
RECURSIVE diffWalk(_, _, _, _, _, _)
diffWalk(a, b, lcs, ai, bi, li) ==
    IF li <= Len(lcs)
    THEN IF ai <= Len(a) /\ a[ai] # lcs[li]
         THEN DiffLine(Minus, a[ai]) \o diffWalk(a, b, lcs, ai + 1, bi, li)
         ELSE IF bi <= Len(b) /\ b[bi] # lcs[li]
         THEN DiffLine(Plus, b[bi]) \o diffWalk(a, b, lcs, ai, bi + 1, li)
         ELSE DiffLine(Space, lcs[li]) \o diffWalk(a, b, lcs, ai + 1, bi + 1, li + 1)
    ELSE IF ai <= Len(a)
         THEN DiffLine(Minus, a[ai]) \o diffWalk(a, b, lcs, ai + 1, bi, li)
         ELSE IF bi <= Len(b)
         THEN DiffLine(Plus, b[bi]) \o diffWalk(a, b, lcs, ai, bi + 1, li)
         ELSE <<>>

unifiedDiff(a, b) ==
    LET aLines == splitLines(a)
        bLines == splitLines(b)
    IN IF Len(aLines) > maxDiffLines \/ Len(bLines) > maxDiffLines
       THEN DiffHeader \o DiffLines(Minus, aLines) \o DiffLines(Plus, bLines)
       ELSE DiffHeader \o diffWalk(aLines, bLines, computeLCS(aLines, bLines), 1, 1, 1)

OutputGroup(g, isNorm, diff) ==
    [Hosts |-> SortStrings(g.hosts), Stdout |-> g.stdout, Stderr |-> g.stderr,
     ExitCode |-> g.exitCode, IsNorm |-> isNorm, Diff |-> diff]

\* grouper.Group
Group(rs) ==
    LET cs == completed(rs)
        order == hashOrder(cs, {})
    IN IF cs = <<>>
       THEN [Groups |-> <<>>, Failed |-> FailedOf(rs), TimedOut |-> TimedOutOf(rs)]
       ELSE LET norm == normHash(cs, Tail(order), Head(order))
                outliers == SelectSeq(order, LAMBDA k : k # norm)
                normStdout == groupData(cs, norm).stdout
            IN [Groups |-> <<OutputGroup(groupData(cs, norm), TRUE, <<>>)>> \o
                           [i \in 1..Len(outliers) |->
                               OutputGroup(groupData(cs, outliers[i]), FALSE,
                                   unifiedDiff(normStdout,
                                               groupData(cs, outliers[i]).stdout))],
                Failed |-> FailedOf(rs),
                TimedOut |-> TimedOutOf(rs)]

\* the result vectors handed to Group
OutBytes == {<<>>, <<0>>}
ExitCodes == {0, 1}
ResultValues ==
    { Completed(h, o, e, c) : h \in Labels, o \in OutBytes, e \in OutBytes, c \in ExitCodes }
    \cup { Errored(h, e) : h \in Labels,
              e \in {ErrGeneric, ErrDeadline, NetChain(<<TRUE>>), NetChain(<<FALSE, TRUE>>)} }
GroupInputs == UNION { [1..n -> ResultValues] : n \in 0..MaxResults }

GroupInit ==
    /\ gin \in GroupInputs
    /\ gout = Nil

\* gr := Group(results)
DoGroup ==
    /\ gout = Nil
    /\ gout' = Group(gin)
    /\ UNCHANGED gin
    /\ UNCHANGED notGroup

GroupNext == DoGroup

\* the result vectors whose outputs are text: two hosts with any two
\* outputs of at most MaxOut bytes over "a", "b" and the newline, and
\* possibly a third host repeating one of them
OutTexts == UNION { [1..n -> {97, 98, NL}] : n \in 0..MaxOut }
DiffInputs ==
    { <<Completed("h1", a, <<>>, 0), Completed("h2", b, <<>>, 0)>> :
          a \in OutTexts, b \in OutTexts } \cup
    { <<Completed("h1", a, <<>>, 0), Completed("h2", b, <<>>, 0),
        Completed("h3", IF third = 1 THEN a ELSE b, <<>>, 0)>> :
          a \in OutTexts, b \in OutTexts, third \in {1, 2} }

DiffInit ==
    /\ gin \in DiffInputs
    /\ gout = Nil

GroupIdle ==
    /\ gin = <<>>
    /\ gout = Nil

\* ============================================================== selector
\* A selector string, split at its commas and trimmed: a sequence of parts.
\* A part records whether it starts with "@" and the text after it.
\* The empty string is <<>>.
At(name) == [at |-> TRUE, name |-> name]
Bare(name) == [at |-> FALSE, name |-> name]

\* selector.State
State(all, grouped) == [AllHosts |-> all, Grouped |-> grouped]

Resolved(hs) == [hosts |-> hs, err |-> NoErr]
Failure(text) == [hosts |-> <<>>, err |-> Err({}, FALSE, {text})]

RECURSIVE Flatten(_)
Flatten(ss) == IF ss = <<>> THEN <<>> ELSE Head(ss) \o Flatten(Tail(ss))

HostsOf(rs) == [i \in 1..Len(rs) |-> rs[i].Host]

\* path.Match(pattern, h) over the labels: a literal, "*" and "h*"
Match(pattern, h) == pattern = h \/ pattern = "*" \/ pattern = "h*"
BadPattern(pattern) == pattern = "["

\* an @ok that answers with every host once a command has run
okHosts_All(st) ==
    IF st.Grouped = Nil THEN Failure("no previous command results")
    ELSE Resolved(st.AllHosts)

okHosts(st) ==
    IF st.Grouped = Nil THEN Failure("no previous command results")
    ELSE LET norms == SelectSeq(st.Grouped.Groups, LAMBDA g : g.IsNorm)
         IN IF norms = <<>> THEN Resolved(<<>>) ELSE Resolved(norms[1].Hosts)

differsHosts_FirstOnly(st) ==
    IF st.Grouped = Nil THEN Failure("no previous command results")
    ELSE LET others == SelectSeq(st.Grouped.Groups, LAMBDA g : ~g.IsNorm)
         IN IF others = <<>> THEN Resolved(<<>>) ELSE Resolved(others[1].Hosts)
differsHosts(st) ==
    IF st.Grouped = Nil THEN Failure("no previous command results")
    ELSE LET others == SelectSeq(st.Grouped.Groups, LAMBDA g : ~g.IsNorm)
         IN Resolved(Flatten([i \in 1..Len(others) |-> others[i].Hosts]))

failedHosts_NoTimedOut(st) ==
    IF st.Grouped = Nil THEN Failure("no previous command results")
    ELSE LET bad == SelectSeq(st.Grouped.Groups, LAMBDA g : g.ExitCode # 0)
         IN Resolved(HostsOf(st.Grouped.Failed) \o
                     Flatten([i \in 1..Len(bad) |-> bad[i].Hosts]))
failedHosts(st) ==
    IF st.Grouped = Nil THEN Failure("no previous command results")
    ELSE LET bad == SelectSeq(st.Grouped.Groups, LAMBDA g : g.ExitCode # 0)
         IN Resolved(HostsOf(st.Grouped.Failed) \o
                     Flatten([i \in 1..Len(bad) |-> bad[i].Hosts]) \o
                     HostsOf(st.Grouped.TimedOut))

timeoutHosts_NoGuard(st) ==
    IF st.Grouped = Nil THEN Resolved(<<>>)
    ELSE Resolved(HostsOf(st.Grouped.TimedOut))
timeoutHosts(st) ==
    IF st.Grouped = Nil THEN Failure("no previous command results")
    ELSE Resolved(HostsOf(st.Grouped.TimedOut))

matchHosts(pattern, all) ==
    IF BadPattern(pattern) THEN Failure("invalid pattern")
    ELSE LET matched == SelectSeq(all, LAMBDA h : Match(pattern, h))
         IN IF matched = <<>> THEN Failure("no hosts match") ELSE Resolved(matched)

resolveSingle(part, st) ==
    IF ~part.at THEN Failure("must start with @")
    ELSE CASE part.name = "all" -> Resolved(st.AllHosts)
           [] part.name = "ok" -> okHosts(st)
           [] part.name = "differs" -> differsHosts(st)
           [] part.name = "failed" -> failedHosts(st)
           [] part.name = "timeout" -> timeoutHosts(st)
           [] OTHER -> matchHosts(part.name, st.AllHosts)

\* for _, h := range hosts { if !seen[h] { seen[h] = true; result = append(result, h) } }
RECURSIVE AppendNew(_, _)
AppendNew(acc, hs) ==
    IF hs = <<>> THEN acc
    ELSE IF \E i \in 1..Len(acc) : acc[i] = Head(hs)
         THEN AppendNew(acc, Tail(hs))
         ELSE AppendNew(Append(acc, Head(hs)), Tail(hs))

RECURSIVE ResolveParts(_, _, _)
ResolveParts(parts, st, acc) ==
    IF parts = <<>> THEN Resolved(acc)
    ELSE IF Head(parts) = Bare("") THEN ResolveParts(Tail(parts), st, acc)
    ELSE LET one == resolveSingle(Head(parts), st)
         IN IF one.err # NoErr THEN [hosts |-> <<>>, err |-> one.err]
            ELSE ResolveParts(Tail(parts), st, AppendNew(acc, one.hosts))

\* selector.Resolve
RECURSIVE ResolveParts_Concat(_, _, _)
ResolveParts_Concat(parts, st, acc) ==
    IF parts = <<>> THEN Resolved(acc)
    ELSE IF Head(parts) = Bare("") THEN ResolveParts_Concat(Tail(parts), st, acc)
    ELSE LET one == resolveSingle(Head(parts), st)
         IN IF one.err # NoErr THEN [hosts |-> <<>>, err |-> one.err]
            ELSE ResolveParts_Concat(Tail(parts), st, acc \o one.hosts)
Resolve_Concat(sel, st) ==
    IF sel = <<>> \/ sel = <<At("all")>> THEN Resolved(st.AllHosts)
    ELSE ResolveParts_Concat(sel, st, <<>>)
Resolve(sel, st) ==
    IF sel = <<>> \/ sel = <<At("all")>> THEN Resolved(st.AllHosts)
    ELSE ResolveParts(sel, st, <<>>)

\* ================================================================ recipe
\* r.allHosts
allHosts == <<"h2", "h1">>

Step(sel, cmd) == [Selector |-> sel, Command |-> cmd]
StepResult(step, hs, rs, grouped) ==
    [Step |-> step, Hosts |-> hs, Results |-> rs, Grouped |-> grouped]

\* the selectors and commands of the recipes explored
StepSelectors ==
    { <<>>, <<At("ok")>>, <<At("differs")>>, <<At("failed")>>, <<At("zz")>>,
      <<At("timeout")>>, <<At("differs"), At("failed")>> }
StepValues == { Step(sel, "cmd") : sel \in StepSelectors }
Recipes == UNION { [1..n -> StepValues] : n \in 0..MaxSteps }

\* if err := ctx.Err(); err != nil
ctxErr_Never(fired) == NoErr
ctxErr(fired) == IF fired THEN ErrCanceled ELSE NoErr

\* fmt.Errorf("step %q: %w", step.Command, err)
StepErr_NoCommand(cmd, e) == [e EXCEPT !.msg = e.msg \cup {"step"}]
StepErr(cmd, e) == [e EXCEPT !.msg = e.msg \cup {"step", cmd}]

\* state.Grouped = grouped
Propagate_KeepFirst(old, grouped) == IF old = Nil THEN grouped ELSE old
Propagate(old, grouped) == grouped

\* results = append(results, StepResult{...})
appendStep_OnlyClean(acc, sr) ==
    IF \E i \in 1..Len(sr.Results) :
           sr.Results[i].Err # NoErr \/ sr.Results[i].ExitCode # 0
    THEN acc ELSE Append(acc, sr)
appendStep(acc, sr) == Append(acc, sr)

\* what Execute may put in the slot of host h: one of two outputs, a
\* non-zero exit, a connection failure, a timeout, and the cancellation
\* result once the token has fired
HostOutcomes(h, fired) ==
    { Completed(h, <<>>, <<>>, 0), Completed(h, <<0>>, <<>>, 0),
      Completed(h, <<>>, <<>>, 1),
      Errored(h, Wrap("connect", ErrRefused)), Errored(h, ErrDeadline) } \cup
    (IF fired THEN {Errored(h, ErrCanceled)} ELSE {})

\* the vectors Execute may return for hosts hs: one slot per host, in order
ExecuteOutcomes(hs, fired) ==
    { rs \in [1..Len(hs) -> UNION {HostOutcomes(hs[i], fired) : i \in 1..Len(hs)}] :
          \A i \in 1..Len(hs) : rs[i] \in HostOutcomes(hs[i], fired) }

NoReturn == [results |-> <<>>, err |-> NoErr]

RecipeInit ==
    /\ rsteps \in Recipes
    /\ rctx = FALSE
    /\ ri = 1
    /\ rpc = "top"
    /\ rhosts = <<>>
    /\ rstate = Nil
    /\ rresults = <<>>
    /\ rret = NoReturn
    /\ resolvedWith = <<>>
    /\ dispatched = {}

\* the token fires
CancelRecipe ==
    /\ rpc # "returned"
    /\ ~rctx
    /\ rctx' = TRUE
    /\ UNCHANGED <<rsteps, ri, rpc, rhosts, rstate, rresults, rret,
                   resolvedWith, dispatched>>
    /\ UNCHANGED notRecipe

\* head of the loop for step ri: the ctx check, Resolve, and the call of
\* Execute; either return leaves the loop
StepBegin ==
    /\ rpc = "top"
    /\ ri <= Len(rsteps)
    /\ LET step == rsteps[ri]
           cerr == ctxErr(rctx)
           res == Resolve(step.Selector, State(allHosts, rstate))
       IN IF cerr # NoErr
          THEN /\ rpc' = "returned"
               /\ rret' = [results |-> rresults, err |-> Wrap("recipe cancelled", cerr)]
               /\ UNCHANGED <<rhosts, resolvedWith, dispatched>>
          ELSE IF res.err # NoErr
          THEN /\ rpc' = "returned"
               /\ rret' = [results |-> rresults, err |-> StepErr(step.Command, res.err)]
               /\ resolvedWith' = Append(resolvedWith, rstate)
               /\ UNCHANGED <<rhosts, dispatched>>
          ELSE /\ rpc' = "exec"
               /\ rhosts' = res.hosts
               /\ resolvedWith' = Append(resolvedWith, rstate)
               /\ dispatched' = dispatched \cup {ri}
               /\ UNCHANGED rret
    /\ UNCHANGED <<rsteps, rctx, ri, rstate, rresults>>
    /\ UNCHANGED notRecipe

\* Execute returns: group, append the step, hand the grouping to the state
StepEnd ==
    /\ rpc = "exec"
    /\ \E hostResults \in ExecuteOutcomes(rhosts, rctx) :
          LET grouped == Group(hostResults)
          IN /\ rresults' = appendStep(rresults,
                                StepResult(rsteps[ri], rhosts, hostResults, grouped))
             /\ rstate' = Propagate(rstate, grouped)
    /\ ri' = ri + 1
    /\ rpc' = "top"
    /\ UNCHANGED <<rsteps, rctx, rhosts, rret, resolvedWith, dispatched>>
    /\ UNCHANGED notRecipe

\* the loop is over: return results, nil
RecipeReturn ==
    /\ rpc = "top"
    /\ ri > Len(rsteps)
    /\ rpc' = "returned"
    /\ rret' = [results |-> rresults, err |-> NoErr]
    /\ UNCHANGED <<rsteps, rctx, ri, rhosts, rstate, rresults, resolvedWith, dispatched>>
    /\ UNCHANGED notRecipe

RecipeNext ==
    \/ CancelRecipe
    \/ StepBegin
    \/ StepEnd
    \/ RecipeReturn

RecipeIdle ==
    /\ rsteps = <<>>
    /\ rctx = FALSE
    /\ ri = 1
    /\ rpc = "returned"
    /\ rhosts = <<>>
    /\ rstate = Nil
    /\ rresults = <<>>
    /\ rret = NoReturn
    /\ resolvedWith = <<>>
    /\ dispatched = {}

\* ---- one Resolve call
\* the parts a selector is made of: the buckets, an exact name, globs that
\* match all and no host, a malformed pattern, a part without "@", and the
\* blank part two adjacent commas leave
SelParts ==
    { At("all"), At("ok"), At("differs"), At("failed"), At("timeout"),
      At("h1"), At("h*"), At("zz"), At("["), Bare("h1"), Bare("") }
Selectors == UNION { [1..n -> SelParts] : n \in 0..MaxParts }

\* state.AllHosts: the hosts of a group as configured, in any order, a
\* name possibly listed twice
SelAllHosts == { <<"h1", "h2", "h3">>, <<"h2", "h1">>, <<"h1", "h2", "h1">> }

\* the result vectors of the previous command: it ran on some of the
\* hosts, each of them once
LastResults(all) ==
    LET once == AppendNew(<<>>, all)
    IN UNION { ExecuteOutcomes(SubSeq(once, 1, k), FALSE) : k \in 0..Len(once) }

SelectInit ==
    /\ ssel \in Selectors
    /\ \E all \in SelAllHosts : \E rs \in LastResults(all) : \E ran \in BOOLEAN :
          /\ slast = (IF ran THEN rs ELSE <<>>)
          /\ sstate = State(all, IF ran THEN Group(rs) ELSE Nil)
    /\ sout = Nil

\* hosts, err := selector.Resolve(sel, state)
DoResolve ==
    /\ sout = Nil
    /\ sout' = Resolve(ssel, sstate)
    /\ UNCHANGED <<ssel, sstate, slast>>
    /\ UNCHANGED notSelect

SelectNext == DoResolve

SelectIdle ==
    /\ ssel = <<>>
    /\ sstate = State(<<>>, Nil)
    /\ slast = <<>>
    /\ sout = Resolved(<<>>)

\* ============================================================ ParseInput
\* the characters an input line is made of
ChAt == "@"
ChComma == ","
ChSpace == " "
ChTab == "\t"      \* a tab: white space to TrimSpace, not to the scanner
ChOther == "x"     \* any other character
Chars == {ChAt, ChComma, ChSpace, ChTab, ChOther}

\* unicode.IsSpace
IsSpace(c) == c \in {ChSpace, ChTab}

\* strings.TrimSpace
RECURSIVE TrimLeft(_)
TrimLeft(s) ==
    IF s # <<>> /\ IsSpace(Head(s)) THEN TrimLeft(Tail(s)) ELSE s

RECURSIVE TrimRight(_)
TrimRight(s) ==
    IF s # <<>> /\ IsSpace(s[Len(s)]) THEN TrimRight(SubSeq(s, 1, Len(s) - 1)) ELSE s

TrimSpace(s) == TrimRight(TrimLeft(s))

\* Positions are Go's: i counts the characters before the cursor, so the
\* character under the cursor is s[i + 1].
\* for i < len(input) && input[i] == ' ' { i++ }
RECURSIVE skipSpaces(_, _)
skipSpaces(s, i) ==
    IF i < Len(s) /\ s[i + 1] = ChSpace THEN skipSpaces(s, i + 1) ELSE i

\* for i < len(input) && input[i] != ' ' && input[i] != ',' { i++ }
RECURSIVE tokenEnd(_, _)
tokenEnd(s, i) ==
    IF i < Len(s) /\ s[i + 1] # ChSpace /\ s[i + 1] # ChComma
    THEN tokenEnd(s, i + 1) ELSE i

\* the scanning loop: the value of i when it breaks
RECURSIVE scan(_, _)
scan(s, i0) ==
    LET i1 == skipSpaces(s, i0)
    IN IF i1 >= Len(s) \/ s[i1 + 1] # ChAt THEN i1
       ELSE LET i2 == tokenEnd(s, i1)
                j == skipSpaces(s, i2)
            IN IF j >= Len(s) \/ s[j + 1] # ChComma THEN i2
               ELSE LET k == skipSpaces(s, j + 1)
                    IN IF k >= Len(s) \/ s[k + 1] # ChAt THEN i2
                       ELSE scan(s, j + 1)

Parsed(sel, command) == [sel |-> sel, command |-> command]

\* a cut that swallows the character under the cursor
cut_SkipOne(s, i) ==
    Parsed(TrimSpace(SubSeq(s, 1, i)),
           IF i >= Len(s) THEN <<>> ELSE TrimSpace(SubSeq(s, i + 2, Len(s))))

\* sel = TrimSpace(input[:i]); command = TrimSpace(input[i:]), "" at the end
cut(s, i) ==
    Parsed(TrimSpace(SubSeq(s, 1, i)),
           IF i >= Len(s) THEN <<>> ELSE TrimSpace(SubSeq(s, i + 1, Len(s))))

ParseInput(line) ==
    LET input == TrimSpace(line)
    IN IF input = <<>> \/ Head(input) # ChAt
       THEN Parsed(<<>>, input)
       ELSE cut(input, scan(input, 0))

\* the lines ParseInput is handed
Lines == UNION { [1..n -> Chars] : n \in 0..MaxLine }

ParseInit ==
    /\ pline \in Lines
    /\ pout = Nil

\* sel, command := selector.ParseInput(input)
DoParse ==
    /\ pout = Nil
    /\ pout' = ParseInput(pline)
    /\ UNCHANGED pline
    /\ UNCHANGED notParse

ParseNext == DoParse

ParseIdle ==
    /\ pline = <<>>
    /\ pout = Parsed(<<>>, <<>>)

\* ========================================================= ticket channel
\* pool.go getOrDial around one ticket: the dialer (lines 93-111) and the
\* callers that found the ticket in p.inflight (lines 80-91), one action
\* per channel operation.
Waiters == 1..MaxWaiters

\* cap(ch) of make(chan dialResult, 1)
ChanCap == 1

Waiter(pc, token, held, got) == [pc |-> pc, token |-> token, held |-> held, got |-> got]

TicketInit ==
    /\ tch = <<>>
    /\ tticket = TRUE
    /\ tdial = "dialing"
    /\ tres = Nil
    /\ twait = [w \in Waiters |-> Waiter("out", "live", Nil, Nil)]

\* a caller finds the ticket under p.mu and enters the select
Join(w) ==
    /\ twait[w].pc = "out"
    /\ tticket
    /\ twait' = [twait EXCEPT ![w].pc = "select"]
    /\ UNCHANGED <<tch, tticket, tdial, tres>>
    /\ UNCHANGED notTicket

\* the waiter's ctx is cancelled or its deadline passes
FireToken(w) ==
    /\ twait[w].pc \in {"out", "select"}
    /\ twait[w].token = "live"
    /\ \E t \in {"canceled", "deadline"} : twait' = [twait EXCEPT ![w].token = t]
    /\ UNCHANGED <<tch, tticket, tdial, tres>>
    /\ UNCHANGED notTicket

\* Dial returns; under p.mu the ticket is deleted (and the client stored)
DialDone ==
    /\ tdial = "dialing"
    /\ \E out \in DialOutcomes("live") :
          tres' = dialResult(IF out.err = NoErr THEN 1 ELSE 0, out.err)
    /\ tticket' = FALSE
    /\ tdial' = "send"
    /\ UNCHANGED <<tch, twait>>
    /\ UNCHANGED notTicket

\* ch <- dialResult{client, err}; return client, err
Send ==
    /\ tdial = "send"
    /\ Len(tch) < ChanCap
    /\ tch' = Append(tch, tres)
    /\ tdial' = "returned"
    /\ UNCHANGED <<tticket, tres, twait>>
    /\ UNCHANGED notTicket

\* select: case res := <-ch
Recv(w) ==
    /\ twait[w].pc = "select"
    /\ tch # <<>>
    /\ tch' = Tail(tch)
    /\ twait' = [twait EXCEPT ![w].pc = "refill", ![w].held = Head(tch)]
    /\ UNCHANGED <<tticket, tdial, tres>>
    /\ UNCHANGED notTicket

\* a waiter that returns without putting the result back
Refill_Keep(w) ==
    /\ twait[w].pc = "refill"
    /\ twait' = [twait EXCEPT ![w].pc = "returned", ![w].got = twait[w].held]
    /\ UNCHANGED <<tch, tticket, tdial, tres>>
    /\ UNCHANGED notTicket

\* ch <- res; return res.client, res.err
Refill(w) ==
    /\ twait[w].pc = "refill"
    /\ Len(tch) < ChanCap
    /\ tch' = Append(tch, twait[w].held)
    /\ twait' = [twait EXCEPT ![w].pc = "returned", ![w].got = twait[w].held]
    /\ UNCHANGED <<tticket, tdial, tres>>
    /\ UNCHANGED notTicket

\* select: case <-ctx.Done(): return nil, ctx.Err()
Leave(w) ==
    /\ twait[w].pc = "select"
    /\ twait[w].token # "live"
    /\ twait' = [twait EXCEPT ![w].pc = "returned",
                              ![w].got = dialResult(0, CtxErr(twait[w].token))]
    /\ UNCHANGED <<tch, tticket, tdial, tres>>
    /\ UNCHANGED notTicket

TicketNext ==
    \/ \E w \in Waiters : Join(w)
    \/ \E w \in Waiters : FireToken(w)
    \/ DialDone
    \/ Send
    \/ \E w \in Waiters : Recv(w)
    \/ \E w \in Waiters : Refill(w)
    \/ \E w \in Waiters : Leave(w)

\* Scheduling: a goroutine that can take its next step does so in the end.
\* Nothing is assumed of Dial, of the callers' tokens or of who joins.
TicketFairness ==
    /\ WF_vars(Send)
    /\ \A w \in Waiters : WF_vars(Recv(w) \/ Leave(w))
    /\ \A w \in Waiters : WF_vars(Refill(w))

TicketIdle ==
    /\ tch = <<>>
    /\ tticket = FALSE
    /\ tdial = "returned"
    /\ tres = Nil
    /\ twait = [w \in Waiters |-> Waiter("returned", "live", Nil, Nil)]

\* ============================================================= front-ends
\* REPL.Run (one loop iteration per input line) and the dashboard's
\* Model.executeCommand / Model.Update(execResultMsg).  A line is taken as
\* ParseInput left it: a selector and a command.
FrontHosts == <<"h1", "h2">>

FrontSelectors == { <<>>, <<At("ok")>>, <<At("differs")>>, <<At("zz")>> }
FrontLines == { Parsed(sel, cmd) : sel \in FrontSelectors, cmd \in {"", "cmd"} }

\* what the handling of a line found and did
Handled(line, before, execBefore, failed) ==
    [line |-> line, before |-> before, execBefore |-> execBefore, failed |-> failed]

\* execResultMsg{Command, Results, Grouped}
execResultMsg(command, grouped) == [Command |-> command, Grouped |-> grouped]

\* the closure executeCommand returns for hosts that resolved
ExecCmd(line, hs) == [line |-> line, hosts |-> hs, failed |-> FALSE]

\* the closure executeCommand returns when Resolve failed
ErrorCmd(line) == [line |-> line, hosts |-> <<>>, failed |-> TRUE]

\* Update, case execResultMsg: m.lastGrouped = msg.Grouped
UpdateGrouped(last, msg) == msg.Grouped

FrontInit ==
    /\ fkind \in {"repl", "dashboard"}
    /\ flast = Nil
    /\ fcmds = <<>>
    /\ fexec = 0
    /\ fn = 0
    /\ fhandled = Nil

\* one iteration of the REPL loop for a line that is neither empty nor a
\* colon-command
ReplLine(line) ==
    LET res == Resolve(line.sel, State(FrontHosts, flast))
    IN /\ fkind = "repl"
       /\ fn < MaxInputs
       /\ fn' = fn + 1
       /\ IF line.command = ""
          THEN UNCHANGED <<flast, fexec, fhandled>>
          ELSE IF res.err # NoErr
          THEN /\ fhandled' = Handled(line, flast, fexec, TRUE)
               /\ UNCHANGED <<flast, fexec>>
          ELSE IF res.hosts = <<>>
          THEN /\ fhandled' = Handled(line, flast, fexec, FALSE)
               /\ UNCHANGED <<flast, fexec>>
          ELSE /\ \E rs \in ExecuteOutcomes(res.hosts, FALSE) :
                     flast' = Group(rs)
               /\ fexec' = fexec + 1
               /\ fhandled' = Handled(line, flast, fexec, FALSE)
       /\ UNCHANGED <<fkind, fcmds>>
       /\ UNCHANGED notFront

\* the dashboard: Enter in the command input, m.executeCommand(input)
executeCommand(line) ==
    LET res == Resolve(line.sel, State(FrontHosts, flast))
    IN /\ fkind = "dashboard"
       /\ fn < MaxInputs
       /\ fn' = fn + 1
       /\ fcmds' = IF line.command = "" THEN fcmds
                   ELSE IF res.err # NoErr
                   THEN Append(fcmds, ErrorCmd(line))
                   ELSE Append(fcmds, ExecCmd(line, res.hosts))
       /\ UNCHANGED <<fkind, flast, fexec, fhandled>>
       /\ UNCHANGED notFront

\* the runtime runs a returned closure and hands its message to Update
RunCmd(k) ==
    LET c == fcmds[k]
        rest == SubSeq(fcmds, 1, k - 1) \o SubSeq(fcmds, k + 1, Len(fcmds))
    IN /\ fkind = "dashboard"
       /\ fcmds' = rest
       /\ IF c.failed
          THEN /\ flast' = UpdateGrouped(flast, execResultMsg(c.line.command, Nil))
               /\ fhandled' = Handled(c.line, flast, fexec, TRUE)
               /\ UNCHANGED fexec
          ELSE /\ \E rs \in ExecuteOutcomes(c.hosts, FALSE) :
                     flast' = UpdateGrouped(flast,
                                            execResultMsg(c.line.command, Group(rs)))
               /\ fexec' = fexec + 1
               /\ fhandled' = Handled(c.line, flast, fexec, FALSE)
       /\ UNCHANGED <<fkind, fn>>
       /\ UNCHANGED notFront

FrontNext ==
    \/ \E line \in FrontLines : ReplLine(line)
    \/ \E line \in FrontLines : executeCommand(line)
    \/ \E k \in 1..Len(fcmds) : RunCmd(k)

FrontIdle ==
    /\ fkind = "repl"
    /\ flast = Nil
    /\ fcmds = <<>>
    /\ fexec = 0
    /\ fn = MaxInputs
    /\ fhandled = Nil

\* ======================================================== specifications
PoolIdle ==
    /\ impl = "ticket"
    /\ clients = [h \in PoolHosts |-> 0]
    /\ inflight = [h \in PoolHosts |-> 0]
    /\ dials = <<>>
    /\ closed = {}
    /\ runs = <<>>
    /\ shut = FALSE
    /\ atClose = NoClose

ExecIdle ==
    /\ hosts = <<>>
    /\ concurrency = 1
    /\ ctx = FALSE
    /\ results = <<>>
    /\ sem = 0
    /\ tpc = <<>>
    /\ hostCtx = <<>>
    /\ epc = "returned"
    /\ ret = <<>>
    /\ invoked = {}
    /\ reordered = FALSE
    /\ atCancel = [noPermit |-> {}, noResult |-> {}]
    /\ returned = <<>>

\* one Execute call, the pool untouched
ExecStart == ExecInit /\ PoolIdle /\ GroupIdle /\ RecipeIdle /\ SelectIdle /\ NewIdle /\ ParseIdle /\ TicketIdle /\ FrontIdle
ExecSpec == ExecStart /\ [][ExecNext]_vars

\* Scheduling: a goroutine at its select takes one of the ready cases in the
\* end, every call of the runner returns in the end, and wg.Wait() returns
\* once it can.  Nothing is assumed of the caller's cancellation or of the
\* per-host deadlines.
ExecFairness ==
    /\ \A i \in 1..MaxHosts :
          WF_vars(i \in Idx /\ (Acquire(i) \/ AcquireCanceled(i)))
    /\ \A i \in 1..MaxHosts : WF_vars(i \in Idx /\ RunnerReturn(i))
    /\ WF_vars(ExecuteReturn)
ExecFairSpec == ExecSpec /\ ExecFairness

\* concurrent Pool.Run callers, no Execute call
PoolStart == PoolInit /\ ExecIdle /\ GroupIdle /\ RecipeIdle /\ SelectIdle /\ NewIdle /\ ParseIdle /\ TicketIdle /\ FrontIdle
PoolSpec == PoolStart /\ [][PoolNext]_vars

\* concurrent Pool.Run callers and one Pool.Close call
CloseSpec == PoolStart /\ [][CloseNext]_vars

\* one Group call on a result vector
GroupStart == GroupInit /\ ExecIdle /\ PoolIdle /\ RecipeIdle /\ SelectIdle /\ NewIdle /\ ParseIdle /\ TicketIdle /\ FrontIdle
GroupSpec == GroupStart /\ [][GroupNext]_vars

\* one Group call on a vector of text outputs
DiffStart == DiffInit /\ ExecIdle /\ PoolIdle /\ RecipeIdle /\ SelectIdle /\ NewIdle /\ ParseIdle /\ TicketIdle /\ FrontIdle
DiffSpec == DiffStart /\ [][GroupNext]_vars

\* one recipe run
RecipeStart == RecipeInit /\ ExecIdle /\ PoolIdle /\ GroupIdle /\ SelectIdle /\ NewIdle /\ ParseIdle /\ TicketIdle /\ FrontIdle
RecipeSpec == RecipeStart /\ [][RecipeNext]_vars

\* one Resolve call
SelectStart == SelectInit /\ ExecIdle /\ PoolIdle /\ GroupIdle /\ RecipeIdle /\ NewIdle /\ ParseIdle /\ TicketIdle /\ FrontIdle
SelectSpec == SelectStart /\ [][SelectNext]_vars

\* one New call
NewStart == NewInit /\ ExecIdle /\ PoolIdle /\ GroupIdle /\ RecipeIdle /\ SelectIdle /\ ParseIdle /\ TicketIdle /\ FrontIdle
NewSpec == NewStart /\ [][NewNext]_vars

\* one ParseInput call on any line
ParseStart == ParseInit /\ ExecIdle /\ PoolIdle /\ GroupIdle /\ RecipeIdle /\ SelectIdle /\ NewIdle /\ TicketIdle /\ FrontIdle
ParseSpec == ParseStart /\ [][ParseNext]_vars

\* one ticket of pool.go, its dialer and its waiters
TicketStart == TicketInit /\ ExecIdle /\ PoolIdle /\ GroupIdle /\ RecipeIdle /\ SelectIdle /\ NewIdle /\ ParseIdle /\ FrontIdle
TicketSpec == TicketStart /\ [][TicketNext]_vars
TicketFairSpec == TicketSpec /\ TicketFairness

\* a session of a front-end: up to MaxInputs lines
FrontStart == FrontInit /\ ExecIdle /\ PoolIdle /\ GroupIdle /\ RecipeIdle /\ SelectIdle /\ NewIdle /\ ParseIdle /\ TicketIdle
FrontSpec == FrontStart /\ [][FrontNext]_vars

\* ================================================================ claims
\* ---- fan-out executor (ExecSpec)

\* C1: when Execute has returned, the vector has one slot per label, every
\* slot is filled and slot i carries labels[i], whatever order the per-host
\* goroutines finished in and whatever Host the runner put in its result.
C1_OrderPreserved ==
    epc = "returned" =>
        /\ Len(ret) = Len(hosts)
        /\ \A i \in Idx : ret[i] # Nil /\ ret[i].Host = hosts[i]

C1_Witness ==
    /\ epc = "returned"
    /\ Len(hosts) = 3
    /\ hosts[1] # hosts[2]
    /\ reordered

\* C2: the number of runner invocations that have started and not returned
\* never exceeds the concurrency setting.
C2_ConcurrencyBound ==
    Cardinality({i \in Idx : tpc[i] = "run"}) <= concurrency

C2_Witness ==
    /\ concurrency = 2
    /\ Cardinality({i \in Idx : tpc[i] = "run"}) = 2
    /\ \E i \in Idx : tpc[i] = "select"

\* C3 (as claimed): a goroutine that held no permit when the outer context
\* fired never gets one: its runner is never invoked and its slot holds the
\* cancellation result.
C3_NoPermitAfterCancel ==
    \A i \in atCancel.noPermit :
        /\ i \notin invoked
        /\ tpc[i] = "done" => results[i] = CancelResult(hosts[i])

InSlowPath(r) == runs[r].pc \in {"dialing", "waiting"}
Shared(r) == runs[r].got.how \in {"dialer", "recv"}
RunningDials(h) == {d \in DialIds : dials[d].host = h /\ dials[d].state = "running"}

\* C5 (as claimed): callers of getOrDial for one label that are inside the
\* slow path of their first call at the same time, with no client cached,
\* rest on one Dial.
C5_OverlappingCallersOneDial ==
    \A r1, r2 \in Runs :
        (/\ InSlowPath(r1) /\ InSlowPath(r2)
         /\ runs[r1].attempt = 1 /\ runs[r2].attempt = 1
         /\ runs[r1].host = runs[r2].host
         /\ clients[runs[r1].host] = 0) => runs[r1].dial = runs[r2].dial

\* C5 (amended): at any moment at most one Dial per label is in flight, and
\* all callers that took the outcome of the same Dial took the same one: the
\* same client, or the same error.
C5_SingleFlight ==
    /\ \A h \in PoolHosts : Cardinality(RunningDials(h)) <= 1
    /\ \A r1, r2 \in Runs :
          (Shared(r1) /\ Shared(r2) /\ runs[r1].got.dial = runs[r2].got.dial)
              => runs[r1].got.res = runs[r2].got.res

C5_Witness ==
    \E r1, r2 \in Runs :
        /\ r1 # r2
        /\ Shared(r1) /\ Shared(r2)
        /\ runs[r1].got.dial = runs[r2].got.dial
        /\ runs[r1].got.res.client # 0

FirstCmdReconnectable(r) ==
    runs[r].stage1 = "cmd" /\ isReconnectable(runs[r].e1)

\* C6 (as claimed): a run whose first command attempt failed with a
\* reconnectable error has, when it returns, evicted once, dialled once and
\* run the command a second time.
C6_RetryExactlyOnce ==
    \A r \in Runs :
        (runs[r].pc = "done" /\ FirstCmdReconnectable(r)) =>
            /\ runs[r].attempt = 2
            /\ runs[r].nRedial = 1
            /\ runs[r].nCmd = 2

\* C6 (amended): such a run evicts exactly once and makes exactly one more
\* exec attempt, whose outcome it returns as-is; that attempt starts at most
\* one Dial and runs the command at most once more.  No run makes more than
\* two exec attempts, two command attempts or one eviction.
C6_RetryAtMostOnce ==
    \A r \in Runs :
        /\ runs[r].attempt <= 2
        /\ runs[r].nCmd <= runs[r].attempt
        /\ runs[r].nRedial <= 1
        /\ (runs[r].pc = "done" /\ FirstCmdReconnectable(r)) =>
              runs[r].attempt = 2 /\ runs[r].asIs

C6_Witness ==
    \E r \in Runs :
        /\ runs[r].pc = "done" /\ FirstCmdReconnectable(r)
        /\ runs[r].attempt = 2 /\ runs[r].nRedial = 1 /\ runs[r].nCmd = 2
        /\ runs[r].err = NoErr

IsAuthErr(e) == Contains(e.msg, "unable to authenticate")
IsHostKeyErr(e) == Contains(e.msg, "knownhosts: key mismatch")

\* C7: a run whose first exec attempt failed with cancellation, deadline
\* exceeded, an authentication failure or a host-key mismatch has returned
\* that error without evicting, dialling again or trying again.
C7_PermanentNotRetried ==
    \A r \in Runs :
        (IsCtxErr(runs[r].e1) \/ IsAuthErr(runs[r].e1) \/ IsHostKeyErr(runs[r].e1)) =>
            /\ runs[r].pc = "done"
            /\ runs[r].attempt = 1
            /\ runs[r].nRedial = 0
            /\ runs[r].err = runs[r].e1

C7_Witness ==
    \E r1, r2 \in Runs :
        /\ runs[r1].pc = "done" /\ runs[r2].pc = "done"
        /\ IsAuthErr(runs[r1].e1) \/ IsHostKeyErr(runs[r1].e1)
        /\ IsCtxErr(runs[r2].e1) /\ runs[r2].e1.op

\* C8 (as claimed): a run whose own first Dial (no session existed) failed
\* with a network error makes no second attempt.
C8_FirstDialErrorSurfaced ==
    \A r \in Runs :
        (runs[r].stage1 = "dial" /\ runs[r].e1.op /\ ~IsCtxErr(runs[r].e1)) =>
            runs[r].attempt = 1 /\ runs[r].nRedial = 0

\* C9 (as claimed): a caller whose own token is live and who takes the
\* outcome of a Dial never receives a cancellation or deadline error.
C9_DialerCancelSparesWaiters ==
    \A r \in Runs :
        (runs[r].got.how = "recv" /\ runs[r].token = "live") =>
            ~IsCtxErr(runs[r].got.res.err)

\* C10: a waiter that leaves through ctx.Done() returns its own ctx.Err()
\* and no client; a Dial ends with a context error only when the token of the
\* caller that started it has fired, never because of a waiter; whoever takes
\* the outcome of a Dial takes what the Dial produced.
C10_WaiterCancelLeavesDial ==
    /\ \A r \in Runs :
          runs[r].got.how = "cancel" =>
              /\ runs[r].token # "live"
              /\ runs[r].got.res = dialResult(0, CtxErr(runs[r].token))
    /\ \A d \in DialIds :
          (dials[d].state = "done" /\ IsCtxErr(dials[d].res.err)) =>
              runs[dials[d].owner].token # "live"
    /\ \A r \in Runs : Shared(r) => runs[r].got.res = dials[runs[r].got.dial].res

C10_Witness ==
    \E r1, r2 \in Runs :
        /\ runs[r1].got.how = "cancel" /\ runs[r1].got.early
        /\ dials[runs[r1].got.dial].owner = r2
        /\ runs[r2].token = "live"
        /\ Shared(r2) /\ runs[r2].got.dial = runs[r1].got.dial
        /\ runs[r2].got.res.client # 0

\* ---- Pool.Close (CloseSpec)

\* C11 (as claimed): once Close() has returned and every Dial that was in
\* flight when it ran has completed, and no run was issued after it, the
\* cache holds no client for any label.
C11_InflightDialDiscarded ==
    (/\ shut
     /\ atClose.dials # {}
     /\ \A d \in atClose.dials : dials[d].state = "done"
     /\ \A r \in atClose.fresh : runs[r].pc = "lookup" /\ runs[r].attempt = 1
     /\ \A r \in Runs : runs[r].attempt = 1)
        => \A h \in PoolHosts : clients[h] = 0

\* C12 (as claimed): a run issued after Close() has returned starts no Dial
\* and adds no client to the cache.
C12_NoDialAfterClose ==
    shut => \A d \in DialIds :
                dials[d].owner \in atClose.fresh =>
                    /\ dials[d].state # "running"
                    /\ clients[dials[d].host] # d

\* ---- commands on a cached client (PoolSpec)

\* C13 (as claimed): at no moment are two commands executing on the same
\* client.
C13_SerialPerSession ==
    \A r1, r2 \in Runs :
        (r1 # r2 /\ runs[r1].pc = "cmd" /\ runs[r2].pc = "cmd")
            => runs[r1].client # runs[r2].client

\* ---- recipe driver (RecipeSpec)
\* what step k's selector resolves to against grouping g
ResolveStep(k, g) == Resolve(rsteps[k].Selector, State(allHosts, g))

\* C14: the first step is resolved with no grouping, step k+1 is resolved
\* against the grouping step k produced and nothing else, and the hosts of
\* every appended step are what its selector resolved to against it.
C14_LinearPropagation ==
    /\ \A k \in 1..Len(resolvedWith) :
          resolvedWith[k] = (IF k = 1 THEN Nil ELSE rresults[k - 1].Grouped)
    /\ \A k \in 1..Len(rresults) :
          rresults[k].Hosts = ResolveStep(k, resolvedWith[k]).hosts

C14_Witness ==
    /\ Len(rresults) = 3
    /\ rresults[3].Hosts # <<>>
    /\ rresults[3].Hosts # ResolveStep(3, rresults[1].Grouped).hosts

\* C15: a step whose selector fails to resolve is the last one looked at: the
\* driver has returned the resolution error annotated with that step's
\* command, together with the results of exactly the steps before it, and
\* neither that step nor a later one was dispatched.
C15_ResolveErrorStops ==
    \A k \in 1..Len(resolvedWith) :
        ResolveStep(k, resolvedWith[k]).err # NoErr =>
            /\ rpc = "returned"
            /\ k = Len(resolvedWith)
            /\ ResolveStep(k, resolvedWith[k]).err.msg \subseteq rret.err.msg
            /\ {"step", rsteps[k].Command} \subseteq rret.err.msg
            /\ Len(rret.results) = k - 1
            /\ \A j \in 1..(k - 1) :
                  rret.results[j].Step = rsteps[j] /\ rret.results[j] = rresults[j]
            /\ dispatched = 1..(k - 1)

C15_Witness ==
    /\ rpc = "returned"
    /\ Len(resolvedWith) = 3
    /\ ResolveStep(3, resolvedWith[3]).err # NoErr
    /\ Len(rret.results) = 2

HasHostError(rs) ==
    \E i \in 1..Len(rs) : rs[i].Err # NoErr \/ rs[i].ExitCode # 0

\* C16: every step whose Execute has returned is appended with its hosts,
\* its results and their grouping, whatever the per-host results were, and
\* the driver goes on; it stops early only for a selector that fails to
\* resolve (or for the token, C17).
C16_HostErrorsDoNotAbort ==
    /\ Len(rresults) = ri - 1
    /\ \A k \in 1..Len(rresults) :
          /\ rresults[k].Step = rsteps[k]
          /\ HostsOf(rresults[k].Results) = rresults[k].Hosts
          /\ rresults[k].Grouped = Group(rresults[k].Results)
    /\ rpc = "returned" =>
          /\ rret.results = rresults
          /\ (rret.err # NoErr \/ Len(rret.results) < Len(rsteps)) =>
                \/ "step" \in rret.err.msg
                \/ "recipe cancelled" \in rret.err.msg

C16_Witness ==
    /\ rpc = "returned"
    /\ ~rctx
    /\ rret.err = NoErr
    /\ Len(rret.results) = 3
    /\ \E i \in 1..2 : rret.results[1].Results[i].Err = Wrap("connect", ErrRefused)
    /\ \E i \in 1..2 : rret.results[1].Results[i].Err = ErrDeadline
    /\ HasHostError(rret.results[2].Results)
    /\ \E i \in 1..Len(rret.results[2].Results) :
          rret.results[2].Results[i].ExitCode = 1

\* C17: when the token has fired at the head of the loop for step i, the
\* driver's next move is to return the results of the steps before i with a
\* cancellation error, dispatching nothing; once it has returned, nothing
\* is dispatched any more.
C17_CancelStops ==
    [][ /\ (rpc = "top" /\ rctx /\ ri <= Len(rsteps)) =>
              /\ rpc' = "returned"
              /\ rret'.results = rresults
              /\ Len(rresults) = ri - 1
              /\ "Canceled" \in rret'.err.is
              /\ dispatched' = dispatched
              /\ dispatched = 1..(ri - 1)
        /\ rpc = "returned" => dispatched' = dispatched ]_vars

C17_Witness ==
    /\ rpc = "returned"
    /\ "Canceled" \in rret.err.is
    /\ Len(rsteps) = 3
    /\ Len(rret.results) = 1
    /\ dispatched = {1}

\* ---- grouper (GroupSpec)
Count(seq, x) == Cardinality({i \in 1..Len(seq) : seq[i] = x})
RECURSIVE SumHosts(_)
SumHosts(gs) == IF gs = <<>> THEN 0 ELSE Len(Head(gs).Hosts) + SumHosts(Tail(gs))
RECURSIVE HostCount(_, _)
HostCount(gs, h) ==
    IF gs = <<>> THEN 0 ELSE Count(Head(gs).Hosts, h) + HostCount(Tail(gs), h)
Triple(r) == <<r.Stdout, r.Stderr, r.ExitCode>>
\* the non-errored inputs, and how many of them carry a triple
Clean == {i \in 1..Len(gin) : gin[i].Err = NoErr}
ClassSize(t) == Cardinality({i \in Clean : Triple(gin[i]) = t})
ClassHosts(t) ==
    LET ms == SelectSeq(gin, LAMBDA r : r.Err = NoErr /\ Triple(r) = t)
    IN SortStrings([i \in 1..Len(ms) |-> ms[i].Host])

\* C18: every input result lands in exactly one of groups[*].hosts, failed,
\* timed_out: the sizes add up to the input's, every errored result is in
\* failed or timed_out as often as it is in the input and nowhere else, and
\* every label is in the groups as often as it has non-errored results.
C18_Partition ==
    gout # Nil =>
        /\ Len(gout.Failed) + Len(gout.TimedOut) + SumHosts(gout.Groups) = Len(gin)
        /\ \A r \in ResultValues :
              Count(gout.Failed, r) + Count(gout.TimedOut, r) =
                  (IF r.Err # NoErr THEN Count(gin, r) ELSE 0)
        /\ \A r \in ResultValues :
              Count(gout.Failed, r) = 0 \/ Count(gout.TimedOut, r) = 0
        /\ \A h \in Labels :
              HostCount(gout.Groups, h) =
                  Cardinality({i \in Clean : gin[i].Host = h})

C18_Witness ==
    /\ gout # Nil
    /\ Len(gin) = 3
    /\ Len(gout.Failed) = 1 /\ Len(gout.TimedOut) = 1 /\ Len(gout.Groups) = 1

\* C19 (as claimed): when there is a group, groups[0] alone is the norm, no
\* group has more hosts, and groups[0] is the equivalence class (results with
\* one (stdout, stderr, exit code)) that comes first in the input among the
\* classes of maximal size.
C19_NormIsFirstLargestClass ==
    (gout # Nil /\ Len(gout.Groups) > 0) =>
        LET norm == gout.Groups[1]
            biggest == {i \in Clean :
                          \A j \in Clean :
                              ClassSize(Triple(gin[j])) <= ClassSize(Triple(gin[i]))}
            first == CHOOSE i \in biggest : \A j \in biggest : i <= j
        IN /\ norm.IsNorm
           /\ \A k \in 2..Len(gout.Groups) : ~gout.Groups[k].IsNorm
           /\ \A k \in 1..Len(gout.Groups) :
                  Len(gout.Groups[k].Hosts) <= Len(norm.Hosts)
           /\ Triple(norm) = Triple(gin[first])
           /\ norm.Hosts = ClassHosts(Triple(gin[first]))

\* C20 (as claimed): the groups are the equivalence classes: a group holds
\* exactly the non-errored results that carry its (stdout, stderr, exit
\* code), and no two groups carry the same triple.
C20_GroupsAreClasses ==
    gout # Nil =>
        /\ \A k \in 1..Len(gout.Groups) :
              gout.Groups[k].Hosts = ClassHosts(Triple(gout.Groups[k]))
        /\ \A k, l \in 1..Len(gout.Groups) :
              k # l => Triple(gout.Groups[k]) # Triple(gout.Groups[l])

\* the errored results of the input, and where Group put a result
Errs == {i \in 1..Len(gin) : gin[i].Err # NoErr}
InTimedOut(r) == Count(gout.TimedOut, r) > 0
InFailed(r) == Count(gout.Failed, r) > 0
IsDeadlineErr(e) == "DeadlineExceeded" \in e.is
HasTimeoutNetErr(e) == \E k \in 1..Len(e.net) : e.net[k]
FirstNetErrTimesOut(e) == Len(e.net) > 0 /\ e.net[1]

\* C21 (as claimed): an errored result is in timed_out if and only if its
\* error is the deadline-exceeded sentinel or its chain includes a network
\* error whose Timeout() is set; every other errored result is in failed.
C21_TimeoutIffAnyNetTimeout ==
    gout # Nil =>
        \A i \in Errs :
            /\ InTimedOut(gin[i]) <=>
                   (IsDeadlineErr(gin[i].Err) \/ HasTimeoutNetErr(gin[i].Err))
            /\ InFailed(gin[i]) <=>
                   ~(IsDeadlineErr(gin[i].Err) \/ HasTimeoutNetErr(gin[i].Err))

\* C21 (amended): an errored result is in timed_out if and only if its
\* error chain holds the deadline-exceeded sentinel or the outermost network
\* error of its chain has Timeout() set; every other errored result is in
\* failed.
C21_TimeoutIffFirstNetTimeout ==
    gout # Nil =>
        \A i \in Errs :
            /\ InTimedOut(gin[i]) <=>
                   (IsDeadlineErr(gin[i].Err) \/ FirstNetErrTimesOut(gin[i].Err))
            /\ InFailed(gin[i]) <=>
                   ~(IsDeadlineErr(gin[i].Err) \/ FirstNetErrTimesOut(gin[i].Err))

\* a deadline error and a timed-out network error are in timed_out, a
\* plain error is in failed
C21_Witness ==
    /\ gout # Nil
    /\ Len(gin) = 3
    /\ gin[1].Err = ErrDeadline /\ InTimedOut(gin[1])
    /\ gin[2].Err = NetChain(<<TRUE>>) /\ InTimedOut(gin[2])
    /\ gin[3].Err = ErrGeneric /\ InFailed(gin[3])

\* ---- diff engine (DiffSpec)
\* a patch applied to the lines of a text: a "-" line drops the next line,
\* a " " line keeps it, a "+" line inserts its own text; a patch that does
\* not fit leaves the marker line Misfit behind
Misfit == <<255>>
RECURSIVE ApplyLines(_, _)
ApplyLines(old, patch) ==
    IF patch = <<>> THEN (IF old = <<>> THEN <<>> ELSE <<Misfit>>)
    ELSE LET l == Head(patch)
         IN IF l = <<>> THEN <<Misfit>>
            ELSE IF l[1] = Plus THEN <<Tail(l)>> \o ApplyLines(old, Tail(patch))
            ELSE IF old = <<>> \/ Head(old) # Tail(l) THEN <<Misfit>>
            ELSE IF l[1] = Minus THEN ApplyLines(Tail(old), Tail(patch))
            ELSE IF l[1] = Space THEN <<Head(old)>> \o ApplyLines(Tail(old), Tail(patch))
            ELSE <<Misfit>>

\* the lines of a diff below its two header lines
PatchOf(diff) ==
    LET ls == splitLines(diff) IN SubSeq(ls, 3, Len(ls))

\* the text of a sequence of lines, each ended by a newline
RECURSIVE JoinLines(_)
JoinLines(ls) ==
    IF ls = <<>> THEN <<>> ELSE Head(ls) \o <<NL>> \o JoinLines(Tail(ls))

ApplyDiff(normStdout, diff) ==
    JoinLines(ApplyLines(splitLines(normStdout), PatchOf(diff)))

Outliers == IF gout = Nil THEN {} ELSE 2..Len(gout.Groups)
NonFallback(k) ==
    /\ Len(splitLines(gout.Groups[1].Stdout)) <= maxDiffLines
    /\ Len(splitLines(gout.Groups[k].Stdout)) <= maxDiffLines
Terminated(text) == text = <<>> \/ text[Len(text)] = NL

\* C22 (as claimed): for every outlier group G whose stdout and the norm's
\* stdout have at most 500 lines each, applying G.Diff to the norm's stdout
\* yields G's stdout.
C22_DiffRoundTrip ==
    \A k \in Outliers :
        NonFallback(k) =>
            ApplyDiff(gout.Groups[1].Stdout, gout.Groups[k].Diff) = gout.Groups[k].Stdout

\* C22 (amended): for every outlier group G whose stdout is empty or ends
\* with a newline, and whose stdout and the norm's stdout have at most 500
\* lines each, applying G.Diff to the norm's stdout yields G's stdout.
C22_DiffRoundTripTerminated ==
    \A k \in Outliers :
        (NonFallback(k) /\ Terminated(gout.Groups[k].Stdout)) =>
            ApplyDiff(gout.Groups[1].Stdout, gout.Groups[k].Diff) = gout.Groups[k].Stdout

\* the norm is "a\n\n", the outlier "\na\n": the diff adds a line, keeps a
\* line and drops a line
C22_Witness ==
    /\ gout # Nil
    /\ Len(gout.Groups) = 2
    /\ gout.Groups[1].Stdout = <<97, NL, NL>>
    /\ gout.Groups[2].Stdout = <<NL, 97, NL>>
    /\ gout.Groups[2].Diff =
           DiffHeader \o <<Plus, NL>> \o <<Space, 97, NL>> \o <<Minus, NL>>
    /\ ApplyDiff(gout.Groups[1].Stdout, gout.Groups[2].Diff) = gout.Groups[2].Stdout

\* ---- selectors (SelectSpec)
SetOf(seq) == {seq[i] : i \in 1..Len(seq)}
Grouping == sstate.Grouped
GroupHosts(gs) == UNION {SetOf(gs[k].Hosts) : k \in 1..Len(gs)}
\* the previous command's results of host h
LastOf(h) == {i \in 1..Len(slast) : slast[i].Host = h}
Succeeded(h) ==
    \E i \in LastOf(h) : slast[i].Err = NoErr /\ slast[i].ExitCode = 0

\* C23: with a grouping present, @failed resolves without error to exactly
\* the hosts of failed, of timed_out and of every group whose exit code is
\* not 0, and to no host that exited 0 without error.
C23_FailedBucket ==
    (sout # Nil /\ Grouping # Nil /\ ssel = <<At("failed")>>) =>
        /\ sout.err = NoErr
        /\ SetOf(sout.hosts) =
               SetOf(HostsOf(Grouping.Failed)) \cup SetOf(HostsOf(Grouping.TimedOut)) \cup
               GroupHosts(SelectSeq(Grouping.Groups, LAMBDA g : g.ExitCode # 0))
        /\ \A h \in SetOf(sout.hosts) : ~Succeeded(h)
        /\ \A i \in 1..Len(slast) :
               (slast[i].Err # NoErr \/ slast[i].ExitCode # 0) =>
                   slast[i].Host \in SetOf(sout.hosts)

\* one host failed to connect, one timed out, one exited 1: @failed
\* resolves to the three of them
C23_Witness ==
    /\ sout # Nil /\ Grouping # Nil /\ ssel = <<At("failed")>>
    /\ Len(Grouping.Failed) = 1 /\ Len(Grouping.TimedOut) = 1
    /\ Len(Grouping.Groups) = 1 /\ Grouping.Groups[1].ExitCode = 1
    /\ Len(sout.hosts) = 3

\* C24 (as claimed): with a grouping present, every host @ok resolves to
\* belongs to the norm group, has no error and has exit code 0.
C24_OkSucceeded ==
    (sout # Nil /\ Grouping # Nil /\ ssel = <<At("ok")>>) =>
        /\ sout.err = NoErr
        /\ \A h \in SetOf(sout.hosts) :
              /\ \E k \in 1..Len(Grouping.Groups) :
                    Grouping.Groups[k].IsNorm /\ h \in SetOf(Grouping.Groups[k].Hosts)
              /\ Succeeded(h)

\* C25: for a grouping whose failed and timed_out are empty, the hosts of
\* @ok together with the hosts of @differs are the hosts of all groups, and
\* "@ok,@differs" resolves to each of them once.
C25_OkDiffersCoverGroups ==
    (sout # Nil /\ Grouping # Nil /\ Grouping.Failed = <<>> /\ Grouping.TimedOut = <<>>) =>
        LET ok == Resolve(<<At("ok")>>, sstate)
            differs == Resolve(<<At("differs")>>, sstate)
        IN /\ ok.err = NoErr /\ differs.err = NoErr
           /\ SetOf(ok.hosts) \cup SetOf(differs.hosts) = GroupHosts(Grouping.Groups)
           /\ ssel = <<At("ok"), At("differs")>> =>
                  /\ sout.err = NoErr
                  /\ SetOf(sout.hosts) = GroupHosts(Grouping.Groups)
                  /\ \A h \in SetOf(sout.hosts) : Count(sout.hosts, h) = 1

\* a norm group and two outlier groups, no failure: "@ok,@differs"
\* resolves to the three hosts
C25_Witness ==
    /\ sout # Nil /\ Grouping # Nil
    /\ ssel = <<At("ok"), At("differs")>>
    /\ Grouping.Failed = <<>> /\ Grouping.TimedOut = <<>>
    /\ Len(Grouping.Groups) = 3
    /\ Len(sout.hosts) = 3

Buckets == {At("ok"), At("differs"), At("failed"), At("timeout")}
NoPrevious(e) == "no previous command results" \in e.msg
\* the places of the bucket parts of the selector, and the parts that
\* resolve whatever the grouping: blank, @all, a name or glob with a match
BucketAt == {i \in 1..Len(ssel) : ssel[i] \in Buckets}
Harmless == {Bare(""), At("all"), At("h1"), At("h*")}

\* C26: with no grouping in the state, a selector that is a bucket (@ok,
\* @differs, @failed, @timeout), alone or in a comma-union after parts that
\* resolve, fails with the no-previous-results error; a selector without a
\* bucket part never fails with that error, and the empty selector, @all,
\* a host name and a glob resolve.
C26_BucketsNeedGrouping ==
    (sout # Nil /\ Grouping = Nil) =>
        /\ (\E i \in BucketAt : \A j \in 1..(i - 1) : ssel[j] \in Harmless) =>
               (NoPrevious(sout.err) /\ sout.hosts = <<>>)
        /\ BucketAt = {} => ~NoPrevious(sout.err)
        /\ (ssel = <<>> \/ (Len(ssel) = 1 /\ ssel[1] \in Harmless \ {Bare("")})) =>
               (sout.err = NoErr /\ sout.hosts # <<>>)

\* "@all,@timeout" before any command ran
C26_Witness ==
    /\ sout # Nil /\ Grouping = Nil
    /\ ssel = <<At("all"), At("timeout")>>
    /\ NoPrevious(sout.err)

\* the first occurrences of a list, in order
RECURSIVE KeepFirst(_)
KeepFirst(seq) ==
    IF seq = <<>> THEN <<>>
    ELSE <<Head(seq)>> \o KeepFirst(SelectSeq(Tail(seq), LAMBDA x : x # Head(seq)))

\* the results of the parts of the selector, left to right, end to end
\* (the empty selector stands for @all)
PartsConcat ==
    IF ssel = <<>> THEN sstate.AllHosts
    ELSE LET parts == SelectSeq(ssel, LAMBDA p : p # Bare(""))
         IN Flatten([i \in 1..Len(parts) |-> resolveSingle(parts[i], sstate).hosts])
Shortcut == ssel = <<>> \/ ssel = <<At("all")>>

\* C27 (as claimed): for every selector and state, a list resolved without
\* error holds each label at most once, in the order of its first
\* occurrence in the results of the parts put end to end.
C27_ResolvedOnce ==
    (sout # Nil /\ sout.err = NoErr) =>
        /\ \A h \in SetOf(sout.hosts) : Count(sout.hosts, h) = 1
        /\ sout.hosts = KeepFirst(PartsConcat)

\* C27 (amended): for every state and every selector other than the empty
\* one and "@all", a list resolved without error holds each label at most
\* once, in the order of its first occurrence in the results of the parts
\* put end to end; the empty selector and "@all" resolve to all_hosts as it
\* is, a label listed twice there being returned twice.
C27_ResolvedOnceUnlessAll ==
    (sout # Nil /\ sout.err = NoErr) =>
        IF Shortcut THEN sout.hosts = sstate.AllHosts
        ELSE /\ \A h \in SetOf(sout.hosts) : Count(sout.hosts, h) = 1
             /\ sout.hosts = KeepFirst(PartsConcat)

\* "@differs,@failed" where a host of an outlier group exited 1: it is in
\* both parts and resolved once
C27_Witness ==
    /\ sout # Nil /\ sout.err = NoErr /\ Grouping # Nil
    /\ ssel = <<At("differs"), At("failed")>>
    /\ Len(PartsConcat) = 3
    /\ Len(sout.hosts) = 2
    /\ sout.hosts[1] = PartsConcat[1]
    /\ PartsConcat[2] = PartsConcat[1]

\* ---- fan-out executor, one host among its siblings (ExecSpec)
\* what Execute stores for a callable that returned err under a child
\* token in state hctx
Stored(h, err, hctx) ==
    HostResult(h, IF hctx = "deadline" /\ err = NoErr THEN ErrDeadline ELSE err)
\* goroutine i leaves its callable, or its per-host deadline fires, in this step
Ends(i) == tpc[i] = "run" /\ tpc'[i] = "done"
TimesOut(i) == hostCtx[i] # "deadline" /\ hostCtx'[i] = "deadline"
SiblingsKept(i) ==
    \A j \in Idx \ {i} :
        /\ hostCtx'[j] = hostCtx[j]
        /\ tpc'[j] = tpc[j]
        /\ results'[j] = results[j]
        /\ returned'[j] = returned[j]

\* C28: the return of one host's callable, whatever it returns, and the
\* firing of one host's deadline leave every sibling's child token, position
\* and slot as they are; a child token is cancelled only by the outer token;
\* when the outer token never fired every host's callable was run; and a
\* slot whose callable was run holds its own label and what its own
\* callable returned.
C28_SiblingsIsolated ==
    /\ [][\A i \in Idx : (Ends(i) \/ TimesOut(i)) => SiblingsKept(i)]_vars
    /\ [](\A j \in Idx :
            /\ ~ctx => hostCtx[j] # "canceled"
            /\ (epc = "returned" /\ ~ctx) => j \in invoked
            /\ (tpc[j] = "done" /\ j \in invoked) =>
                   results[j] = Stored(hosts[j], returned[j], hostCtx[j]))

\* three hosts: the first callable failed, the second timed out, the third
\* ran under a live token and returned no error, which its slot holds
C28_Witness ==
    /\ epc = "returned" /\ ~ctx
    /\ Len(hosts) = 3
    /\ returned[1] = ErrGeneric /\ ret[1].Err = ErrGeneric
    /\ hostCtx[2] = "deadline" /\ returned[2] = ErrDeadline
    /\ hostCtx[3] = "none" /\ returned[3] = NoErr /\ ret[3].Err = NoErr

\* C29: when the child token has seen its deadline fire by the time the
\* callable returns and the returned result carries no error, the slot's
\* error is deadline-exceeded.
C29_DeadlineRecorded ==
    \A i \in Idx :
        (tpc[i] = "done" /\ i \in invoked /\ hostCtx[i] = "deadline" /\ returned[i] = NoErr) =>
            /\ results[i].Err = ErrDeadline
            /\ epc = "returned" => ret[i].Err = ErrDeadline

\* the deadline fired, the callable returned no error, Execute returned
C29_Witness ==
    /\ epc = "returned"
    /\ \E i \in Idx :
          /\ hostCtx[i] = "deadline" /\ returned[i] = NoErr
          /\ ret[i] = HostResult(hosts[i], ErrDeadline)

\* ---- executor construction (NewSpec)
\* the timeout options applied so far that carry a positive duration
PositiveTimeouts ==
    {i \in 1..nk : nopts[i].kind = "timeout" /\ nopts[i].n > 0}

\* C30: New never yields an executor whose per-host timeout is <= 0,
\* whatever options are applied: a timeout option with a duration <= 0
\* leaves the timeout as it was, so the executor holds the last positive
\* duration given, or the default of 30 s.
C30_TimeoutPositive ==
    nexec # Nil =>
        /\ nexec.timeout > 0
        /\ nexec.timeout =
               (IF PositiveTimeouts = {} THEN 30
                ELSE nopts[CHOOSE i \in PositiveTimeouts :
                               \A j \in PositiveTimeouts : j <= i].n)

\* New(runner, WithTimeout(50), WithTimeout(0), WithTimeout(-1)) has
\* returned an executor with timeout 50
C30_Witness ==
    /\ npc = "returned"
    /\ nopts = <<Option("timeout", 50), Option("timeout", 0), Option("timeout", 0 - 1)>>
    /\ nexec.timeout = 50

\* ---- connection reuse (PoolSpec)
\* run r has not entered Run yet
Unstarted(r) ==
    /\ runs[r].pc = "lookup" /\ runs[r].attempt = 1
    /\ runs[r].dial = 0 /\ runs[r].nCmd = 0

\* run r has returned from Run without a failed attempt and without evicting
DoneClean(r) ==
    /\ runs[r].pc = "done" /\ runs[r].err = NoErr
    /\ runs[r].attempt = 1 /\ runs[r].e1 = NoErr

\* every run other than r has either not started or has returned cleanly,
\* and at least one has returned: r comes strictly after them
ComesLater(r) ==
    /\ Unstarted(r)
    /\ \A q \in Runs \ {r} : Unstarted(q) \/ DoneClean(q)
    /\ \E q \in Runs \ {r} : DoneClean(q)

\* the runs that have entered Run
Started == {r \in Runs : ~Unstarted(r)}

\* C31: over a sequence of runs on one label with no failing attempt, no
\* eviction and no Close, the transport is opened exactly once.  The first
\* run on its own opens it once and leaves the client cached; a run that
\* comes after clean runs finds that client in the cache, starts no dial
\* and goes straight on to run its command on it.
C31_OpenedOnceAndReused ==
    /\ [](\A r \in Runs :
            (Started = {r} /\ DoneClean(r)) =>
                (Len(dials) = 1 /\ clients[runs[r].host] = 1 /\ runs[r].client = 1))
    /\ [][\A r \in Runs :
            (ComesLater(r) /\ clients[runs[r].host] # 0 /\ runs'[r] # runs[r]
                           /\ runs'[r].token = runs[r].token) =>
                /\ dials' = dials
                /\ clients' = clients
                /\ runs'[r].pc = "cmd"
                /\ runs'[r].client = clients[runs[r].host]
                /\ runs'[r].dial = 0]_vars

\* the first run has returned cleanly on the one client dialed, and the
\* second, which only then entered Run, is running its command on that client
\* without having dialed or waited
C31_Witness ==
    /\ DoneClean(1) /\ runs[1].client = 1
    /\ Len(dials) = 1
    /\ runs[2].pc = "cmd" /\ runs[2].client = 1
    /\ runs[2].dial = 0 /\ runs[2].got = NoGot /\ runs[2].attempt = 1

\* ---- input parsing (ParseSpec)
\* s is made of white space only
Blank(s) == \A n \in 1..Len(s) : IsSpace(s[n])

\* sel, a run of white space and command laid end to end are exactly t
Partition(t, sel, command) ==
    /\ Len(sel) + Len(command) <= Len(t)
    /\ SubSeq(t, 1, Len(sel)) = sel
    /\ SubSeq(t, Len(t) - Len(command) + 1, Len(t)) = command
    /\ Blank(SubSeq(t, Len(sel) + 1, Len(t) - Len(command)))

\* the line has a selector list with a space before or after a comma
SpacedComma(s) ==
    \E n \in 1..(Len(s) - 1) :
        \/ s[n] = ChSpace /\ s[n + 1] = ChComma
        \/ s[n] = ChComma /\ s[n + 1] = ChSpace

\* C32: ParseInput is a partition of the trimmed line: the selector text,
\* a delimiter of white space (possibly empty) and the command text, laid
\* end to end, are the trimmed line, nothing dropped and nothing twice;
\* neither text has white space at its ends.  This covers lines with
\* spaces around the commas and lines whose last comma is not followed by
\* an @-token (the comma then opens the command text).
C32_ParseIsPartition ==
    pout # Nil =>
        /\ Partition(TrimSpace(pline), pout.sel, pout.command)
        /\ TrimSpace(pout.sel) = pout.sel
        /\ TrimSpace(pout.command) = pout.command

\* "@ ,@,x" has been parsed: the selector list "@ ,@" has a space before
\* its comma, and the comma that no @-token follows went to the command
C32_Witness ==
    /\ pline = <<ChAt, ChSpace, ChComma, ChAt, ChComma, ChOther>>
    /\ SpacedComma(pline)
    /\ pout = Parsed(<<ChAt, ChSpace, ChComma, ChAt>>, <<ChComma, ChOther>>)

\* ---- eviction (PoolSpec)
\* the client on which run r saw the error that sends it to evict: the one
\* its command ran on, none when the error came out of getOrDial
SeenOn(r) == IF runs[r].stage1 = "cmd" THEN {runs[r].client} ELSE {}

\* C33: the eviction of a run removes from the cache and closes only the
\* client on which that run observed the reconnectable error, never a
\* newer client that another run has dialed in the meantime.
C33_EvictsOnlyOwnClient ==
    [][\A r \in Runs :
          (runs[r].pc = "evict" /\ runs'[r].pc = "lookup") =>
              /\ closed' \ closed \subseteq SeenOn(r)
              /\ clients[runs[r].host] \notin SeenOn(r) => clients' = clients]_vars

\* ---- client ownership (PoolSpec)
\* the clients the pool has dialed successfully
Dialed == {d \in DialIds : dials[d].state = "done" /\ dials[d].res.err = NoErr}

\* C34: every client the pool has successfully dialed is at every moment
\* either the current cache entry for its label or closed by the pool: a
\* successful dial never replaces a cache entry without closing the
\* client it replaces, so no open client is out of the pool's reach.
C34_DialedCachedOrClosed ==
    \A d \in Dialed : clients[dials[d].host] = d \/ d \in closed

\* ---- waiting on a dial (TicketFairSpec)
\* what a waiter whose token has fired returns on its own account
OwnCancellation(w) ==
    /\ twait[w].token # "live"
    /\ twait[w].got = dialResult(0, CtxErr(twait[w].token))

\* C35: once the dial has terminated, every caller waiting on its ticket
\* eventually returns, with the outcome of the dial or with its own
\* cancellation, however many callers wait and however their reads and
\* refills of the one-slot channel interleave; the dialer's send and every
\* waiter's refill go through, so neither blocks forever on the channel.
C35_WaitersReturn ==
    /\ (tdial # "dialing") ~>
          (tdial = "returned" /\ \A w \in Waiters : twait[w].pc \in {"out", "returned"})
    /\ [](\A w \in Waiters :
            twait[w].pc = "returned" => (twait[w].got = tres \/ OwnCancellation(w)))

\* the dial has succeeded and the dialer has returned; one waiter has
\* returned with the dialed client, another holds the result it has just
\* read, so that the channel is empty while the third is still waiting
C35_Witness ==
    /\ tdial = "returned" /\ tres = dialResult(1, NoErr)
    /\ twait[3].pc = "returned" /\ twait[3].got = tres
    /\ twait[1].pc = "refill" /\ twait[1].held = tres
    /\ twait[2].pc = "select" /\ twait[2].token = "live"
    /\ tch = <<>>

\* ---- termination of Execute (ExecFairSpec)
\* the goroutines that hold a permit
Holding == {i \in Idx : tpc[i] = "run"}

\* C36: if every call of the runner returns, Execute returns, for any
\* number of hosts (more hosts than permits included) and whenever the
\* caller cancels.  Every permit taken is given back exactly once (the
\* permits out are at all times those of the goroutines between their
\* acquire and their return), and when Execute returns no permit is out
\* and no goroutine is left at the semaphore.
C36_ExecuteReturns ==
    /\ <>(epc = "returned")
    /\ [](sem = Cardinality(Holding) /\ sem <= concurrency)
    /\ [](epc = "returned" => (sem = 0 /\ \A i \in Idx : tpc[i] = "done"))

\* Execute has returned for three hosts and one permit, the caller having
\* cancelled after the first host had run and while the second held the
\* permit: the second ran as well, the third gave up at the semaphore
C36_Witness ==
    /\ epc = "returned" /\ Len(hosts) = 3 /\ concurrency = 1
    /\ sem = 0
    /\ invoked = {1, 2}
    /\ atCancel.noPermit = {3}
    /\ atCancel.noResult = {2, 3}

\* ---- cancellation of a recipe (RecipeSpec)
\* C37: if the token fires at any point before the driver returns, while
\* the last step is executing included, the driver returns a cancellation
\* error and not a nil error.
C37_CancelledRunReturnsError ==
    (rpc = "returned" /\ rctx) => IsCtxErr(rret.err)

\* ---- hosts a recipe dispatches to (RecipeSpec)
\* the selector names only buckets of the previous command's grouping
BucketOnly(sel) ==
    /\ sel # <<>>
    /\ \A n \in 1..Len(sel) :
          sel[n].at /\ sel[n].name \in {"ok", "differs", "failed", "timeout"}

\* the hosts handed to Execute at step k, for the steps dispatched so far
DispatchedAt(k) == IF k <= Len(rresults) THEN rresults[k].Hosts ELSE rhosts

\* the selector of step k
SelectorAt(k) == rsteps[k].Selector

\* C38: in every recipe run the hosts dispatched at each step are among
\* r.allHosts, and the hosts dispatched at a step whose selector names
\* only buckets (@ok, @differs, @failed, @timeout) are among the hosts
\* dispatched at the step just before it (there is such a step: a bucket
\* selector does not resolve at the first step).
C38_DispatchNarrows ==
    \A k \in dispatched :
        /\ SetOf(DispatchedAt(k)) \subseteq SetOf(allHosts)
        /\ BucketOnly(SelectorAt(k)) =>
              /\ k > 1
              /\ SetOf(DispatchedAt(k)) \subseteq SetOf(DispatchedAt(k - 1))

\* three steps have run: all hosts, then @failed on the one host that
\* failed, then @ok on that host again
C38_Witness ==
    /\ Len(rresults) = 3
    /\ SelectorAt(1) = <<>> /\ DispatchedAt(1) = allHosts
    /\ SelectorAt(2) = <<At("failed")>> /\ DispatchedAt(2) = <<"h1">>
    /\ SelectorAt(3) = <<At("ok")>> /\ DispatchedAt(3) = <<"h1">>

\* ---- a line whose selector does not resolve (FrontSpec)
\* C39: in the REPL and in the dashboard, handling an input line whose
\* selector fails to resolve dispatches no command and leaves the stored
\* last grouping as it was, so that a following bucket selector resolves
\* against the same grouping as before that line.
C39_FailedLineChangesNothing ==
    (fhandled # Nil /\ fhandled.failed) =>
        /\ fexec = fhandled.execBefore
        /\ flast = fhandled.before

====
